---- MODULE Spec2Model ----
(***************************************************************************)
(* Model of the IoT MQTT parser: IotParser.parse (src/src/parser.js), the  *)
(* worker copy parseMessage (src/src/parserWorker.js), the dispatch in     *)
(* IotParser.handleMessage and the view IotParser.handleParsed takes of a  *)
(* result, under the rule set of config/config.js.                         *)
(*                                                                         *)
(* Text is a sequence of characters, a character being a one-character     *)
(* string; the three non-printing characters used are named "TAB", "LF"    *)
(* and "NBSP".  A JavaScript value is a record tagged by its type.  A      *)
(* finite number is held in tenths (23.5 is 235), which is exact for the   *)
(* values the model draws: at most one fractional digit, no exponent.      *)
(***************************************************************************)
EXTENDS Integers, Sequences, FiniteSets, TLC

\* ------------------------------------------------------------------ bounds
\* Clock values (epoch seconds) the model runs through.
Now0 == 2
MaxNow == 3
\* Tokens (pipe) or members (JSON) a message carries beyond its timestamp
\* and uuid slots.
MaxExtra == 1
\* The most lines the logger counts before the connection goes quiet, the
\* most messages that arrive, the most workers, and the latest hour of the
\* day.
MaxLogs == 7
MaxMessages == 3
MaxWorkers == 2
MaxHour == 1

\* -------------------------------------------------------------- characters
Lower == {"a","b","c","d","e","f","g","h","i","j","k","l","m",
          "n","o","p","q","r","s","t","u","v","w","x","y","z"}
Upper == {"A","B","C","D","E","F","G","H","I","J","K","L","M",
          "N","O","P","Q","R","S","T","U","V","W","X","Y","Z"}
Digit == {"0","1","2","3","4","5","6","7","8","9"}
HexLetter == {"a","b","c","d","e","f","A","B","C","D","E","F"}

\* String.prototype.trim strips WhiteSpace and LineTerminator.
TrimSpace == {" ", "TAB", "LF", "NBSP"}
\* JSON.parse skips only these between tokens.
JSONSpace == {" ", "TAB", "LF"}
\* `.` of a regular expression matches anything but a line terminator.
LineTerminator == {"LF"}

DigitVal(c) ==
  CASE c = "0" -> 0 [] c = "1" -> 1 [] c = "2" -> 2 [] c = "3" -> 3
    [] c = "4" -> 4 [] c = "5" -> 5 [] c = "6" -> 6 [] c = "7" -> 7
    [] c = "8" -> 8 [] c = "9" -> 9

DigitChar(d) ==
  CASE d = 0 -> "0" [] d = 1 -> "1" [] d = 2 -> "2" [] d = 3 -> "3"
    [] d = 4 -> "4" [] d = 5 -> "5" [] d = 6 -> "6" [] d = 7 -> "7"
    [] d = 8 -> "8" [] d = 9 -> "9"

\* ------------------------------------------------------- JavaScript values
Undefined == [t |-> "undefined"]
Null == [t |-> "null"]
Bool(b) == [t |-> "boolean", b |-> b]
\* A finite number, n in tenths.
Num(n) == [t |-> "number", n |-> n]
NaN == [t |-> "NaN"]
Infinity == [t |-> "Infinity"]
NegInfinity == [t |-> "-Infinity"]
Str(s) == [t |-> "string", s |-> s]
\* A Date, held as the epoch second it was taken at.
DateAt(n) == [t |-> "date", at |-> n]

Tenths(i) == i * 10

\* ToBoolean
Truthy(v) ==
  CASE v.t = "undefined" -> FALSE
    [] v.t = "null" -> FALSE
    [] v.t = "boolean" -> v.b
    [] v.t = "number" -> v.n # 0
    [] v.t = "NaN" -> FALSE
    [] v.t = "string" -> v.s # <<>>
    [] OTHER -> TRUE

\* a || b
Or(a, b) == IF Truthy(a) THEN a ELSE b

\* F applied to the value of v, which is evaluated once: the model's
\* `const x = v; ... x ...`.
Bind(v, F(_)) == CHOOSE r \in {F(x) : x \in {v}} : TRUE

\* ---------------------------------------------------------- text helpers
\* The least element of a non-empty set of integers, and the greatest.
Least(S) == CHOOSE x \in S : \A y \in S : x <= y
Greatest(S) == CHOOSE x \in S : \A y \in S : x >= y

\* The first index >= i of s whose character is not in set (Len(s)+1 if
\* none; i itself when i is past the end).
SkipWhile(s, i, set) ==
  LET stop == {j \in i..Len(s) : s[j] \notin set}
  IN IF i > Len(s) THEN i
     ELSE IF stop = {} THEN Len(s) + 1
     ELSE Least(stop)

\* The last index <= i of s whose character is not in set (0 if none).
SkipBack(s, i, set) ==
  LET stop == {j \in 1..i : s[j] \notin set}
  IN IF stop = {} THEN 0 ELSE Greatest(stop)

\* String.prototype.trim
trim(s) == SubSeq(s, SkipWhile(s, 1, TrimSpace), SkipBack(s, Len(s), TrimSpace))

\* String.prototype.startsWith, for a one-character prefix
startsWith(s, c) == Len(s) >= 1 /\ s[1] = c

\* String.prototype.includes, for a one-character needle
includes(s, c) == \E i \in 1..Len(s) : s[i] = c

\* str.split('|'): the texts between the separators, one more than there
\* are separators.
split(s) ==
  LET seps == {i \in 1..Len(s) : s[i] = "|"}
      \* the position of the k-th separator; 0 and Len(s)+1 bound the text
      sep(k) == IF k = 0 THEN 0
                ELSE IF k > Cardinality(seps) THEN Len(s) + 1
                ELSE CHOOSE p \in seps : Cardinality({q \in seps : q < p}) = k - 1
  IN [k \in 1..(Cardinality(seps) + 1) |-> SubSeq(s, sep(k - 1) + 1, sep(k) - 1)]

RECURSIVE DigitsValue(_, _, _, _)
\* The value of the decimal digits s[i..j-1], continuing from acc.
DigitsValue(s, i, j, acc) ==
  IF i >= j THEN acc ELSE DigitsValue(s, i + 1, j, acc * 10 + DigitVal(s[i]))

\* True when s reads c1 c2 ... from index i on.
ReadsAt(s, i, word) ==
  /\ i + Len(word) - 1 <= Len(s)
  /\ \A k \in 1..Len(word) : s[i + k - 1] = word[k]

InfinityWord == <<"I","n","f","i","n","i","t","y">>

\* parseInt(s, 10): leading white space, a sign, then decimal digits; what
\* follows the digits is ignored; NaN when there is no digit.
parseInt(s) ==
  LET i0 == SkipWhile(s, 1, TrimSpace)
      neg == i0 <= Len(s) /\ s[i0] = "-"
      i1 == IF i0 <= Len(s) /\ s[i0] \in {"+", "-"} THEN i0 + 1 ELSE i0
      i2 == SkipWhile(s, i1, Digit)
      v == DigitsValue(s, i1, i2, 0)
  IN IF i2 = i1 THEN NaN ELSE Num(Tenths(IF neg THEN -v ELSE v))

\* The number read from s at index i as digits [. digits] or . digits, as
\* <<value in tenths, index after it>>; the index is i when there is none.
DecimalAt(s, i) ==
  LET i1 == SkipWhile(s, i, Digit)
      ip == DigitsValue(s, i, i1, 0)
      dot == i1 <= Len(s) /\ s[i1] = "."
      i2 == IF dot THEN SkipWhile(s, i1 + 1, Digit) ELSE i1
      fr == IF dot /\ i2 > i1 + 1 THEN DigitVal(s[i1 + 1]) ELSE 0
  IN IF i1 = i /\ i2 <= i1 + 1 THEN <<0, i>>
     ELSE <<Tenths(ip) + fr, i2>>

\* parseFloat(s): leading white space, a sign, then Infinity or a decimal;
\* what follows is ignored; NaN when there is neither.
parseFloat(s) ==
  LET i0 == SkipWhile(s, 1, TrimSpace)
      neg == i0 <= Len(s) /\ s[i0] = "-"
      i1 == IF i0 <= Len(s) /\ s[i0] \in {"+", "-"} THEN i0 + 1 ELSE i0
      d == DecimalAt(s, i1)
  IN IF ReadsAt(s, i1, InfinityWord) THEN (IF neg THEN NegInfinity ELSE Infinity)
     ELSE IF d[2] = i1 THEN NaN
     ELSE Num(IF neg THEN -d[1] ELSE d[1])

\* ToNumber of a string: the whole trimmed text must be a numeric literal;
\* the empty text is 0.
StringToNumber(s) ==
  LET u == trim(s)
      neg == Len(u) >= 1 /\ u[1] = "-"
      i1 == IF Len(u) >= 1 /\ u[1] \in {"+", "-"} THEN 2 ELSE 1
      d == DecimalAt(u, i1)
  IN IF u = <<>> THEN Num(0)
     ELSE IF SubSeq(u, i1, Len(u)) = InfinityWord
       THEN (IF neg THEN NegInfinity ELSE Infinity)
     ELSE IF d[2] = i1 \/ d[2] # Len(u) + 1 THEN NaN
     ELSE Num(IF neg THEN -d[1] ELSE d[1])

\* ToNumber
ToNumber(v) ==
  CASE v.t = "undefined" -> NaN
    [] v.t = "null" -> Num(0)
    [] v.t = "boolean" -> Num(IF v.b THEN Tenths(1) ELSE 0)
    [] v.t = "string" -> StringToNumber(v.s)
    [] OTHER -> v

\* a < b and a > b with b a finite number (in tenths): both sides go
\* through ToNumber, and a comparison with NaN is false.
LessThan(v, n) ==
  LET x == ToNumber(v)
  IN CASE x.t = "number" -> x.n < n
       [] x.t = "-Infinity" -> TRUE
       [] OTHER -> FALSE

GreaterThan(v, n) ==
  LET x == ToNumber(v)
  IN CASE x.t = "number" -> x.n > n
       [] x.t = "Infinity" -> TRUE
       [] OTHER -> FALSE

RECURSIVE NatToText(_)
NatToText(n) ==
  IF n < 10 THEN <<DigitChar(n)>>
  ELSE Append(NatToText(n \div 10), DigitChar(n % 10))

\* Number.prototype.toString of a finite number held in tenths
NumberToText(n) ==
  LET a == IF n < 0 THEN -n ELSE n
      body == NatToText(a \div 10) \o
              (IF a % 10 = 0 THEN <<>> ELSE <<".", DigitChar(a % 10)>>)
  IN IF n < 0 THEN <<"-">> \o body ELSE body

\* ToString, as a template literal and RegExp.prototype.test apply it
JSString(v) ==
  CASE v.t = "string" -> v.s
    [] v.t = "number" -> NumberToText(v.n)
    [] v.t = "boolean" ->
         (IF v.b THEN <<"t","r","u","e">> ELSE <<"f","a","l","s","e">>)
    [] v.t = "null" -> <<"n","u","l","l">>
    [] v.t = "undefined" -> <<"u","n","d","e","f","i","n","e","d">>
    [] v.t = "NaN" -> <<"N","a","N">>
    [] v.t = "Infinity" -> InfinityWord
    [] v.t = "-Infinity" -> <<"-">> \o InfinityWord
    [] OTHER -> <<>>

\* ------------------------------------------------------------- JSON.parse
\* JSON.parse, for the texts the model draws: an object whose member values
\* are strings without escapes, numbers without exponent, true, false or
\* null.  The result is [threw |-> TRUE] for a SyntaxError, else the members
\* in source order, [k |-> key text, v |-> value].

\* The index of the quote closing a string whose content starts at i; 0 when
\* the string is not closed or holds a control character or a backslash.
FindQuote(s, i) ==
  LET stop == {j \in i..Len(s) : s[j] \in {"\"", "TAB", "LF", "\\"}}
  IN IF stop # {} /\ s[Least(stop)] = "\"" THEN Least(stop) ELSE 0

JSONFail == [ok |-> FALSE]

JSONStringAt(s, i) ==
  LET j == FindQuote(s, i + 1)
  IN IF i > Len(s) \/ s[i] # "\"" \/ j = 0 THEN JSONFail
     ELSE [ok |-> TRUE, v |-> Str(SubSeq(s, i + 1, j - 1)), next |-> j + 1]

JSONNumberAt(s, i) ==
  LET neg == i <= Len(s) /\ s[i] = "-"
      i1 == IF neg THEN i + 1 ELSE i
      i2 == IF i1 <= Len(s) /\ s[i1] = "0" THEN i1 + 1
            ELSE SkipWhile(s, i1, Digit)
      ip == DigitsValue(s, i1, i2, 0)
      dot == i2 <= Len(s) /\ s[i2] = "."
      i3 == IF dot THEN SkipWhile(s, i2 + 1, Digit) ELSE i2
      fr == IF dot /\ i3 > i2 + 1 THEN DigitVal(s[i2 + 1]) ELSE 0
      val == Tenths(ip) + fr
  IN IF i2 = i1 \/ (dot /\ i3 = i2 + 1) THEN JSONFail
     ELSE [ok |-> TRUE, v |-> Num(IF neg THEN -val ELSE val), next |-> i3]

JSONValueAt(s, i) ==
  IF i > Len(s) THEN JSONFail
  ELSE IF s[i] = "\"" THEN JSONStringAt(s, i)
  ELSE IF s[i] \in Digit \cup {"-"} THEN JSONNumberAt(s, i)
  ELSE IF ReadsAt(s, i, <<"t","r","u","e">>)
    THEN [ok |-> TRUE, v |-> Bool(TRUE), next |-> i + 4]
  ELSE IF ReadsAt(s, i, <<"f","a","l","s","e">>)
    THEN [ok |-> TRUE, v |-> Bool(FALSE), next |-> i + 5]
  ELSE IF ReadsAt(s, i, <<"n","u","l","l">>)
    THEN [ok |-> TRUE, v |-> Null, next |-> i + 4]
  ELSE JSONFail

RECURSIVE JSONMembersAt(_, _, _)
\* The members from index i (a key is expected there) to the closing brace,
\* after which only white space may follow.
JSONMembersAt(s, i, acc) ==
  Bind(JSONStringAt(s, i), LAMBDA key :
    Bind(IF key.ok THEN SkipWhile(s, key.next, JSONSpace) ELSE 0, LAMBDA c :
      Bind(IF key.ok /\ c <= Len(s) /\ s[c] = ":"
           THEN Bind(SkipWhile(s, c + 1, JSONSpace),
                     LAMBDA at : JSONValueAt(s, at))
           ELSE JSONFail, LAMBDA val :
        Bind(IF val.ok THEN SkipWhile(s, val.next, JSONSpace) ELSE 0, LAMBDA e :
          Bind(IF val.ok THEN Append(acc, [k |-> key.v.s, v |-> val.v]) ELSE acc,
               LAMBDA more :
            IF ~val.ok \/ e > Len(s) THEN [threw |-> TRUE]
            ELSE IF s[e] = ","
              THEN Bind(SkipWhile(s, e + 1, JSONSpace),
                        LAMBDA next : JSONMembersAt(s, next, more))
            ELSE IF s[e] = "}" /\ SkipWhile(s, e + 1, JSONSpace) > Len(s)
              THEN [threw |-> FALSE, members |-> more]
            ELSE [threw |-> TRUE])))))

JSONparse(s) ==
  Bind(SkipWhile(s, 1, JSONSpace), LAMBDA i :
    Bind(SkipWhile(s, i + 1, JSONSpace), LAMBDA j :
      IF i > Len(s) \/ s[i] # "{" THEN [threw |-> TRUE]
      ELSE IF j <= Len(s) /\ s[j] = "}"
        THEN (IF SkipWhile(s, j + 1, JSONSpace) > Len(s)
              THEN [threw |-> FALSE, members |-> <<>>]
              ELSE [threw |-> TRUE])
      ELSE JSONMembersAt(s, j, <<>>)))

RECURSIVE Prop(_, _, _)
\* jsonData.name: the value of the last member of that name among the
\* first n, undefined when there is none.
Prop(members, n, name) ==
  IF n = 0 THEN Undefined
  ELSE IF members[n].k = name THEN members[n].v
  ELSE Prop(members, n - 1, name)

\* --------------------------------------------------------------- rule set
\* config.validation (config/config.js); timestamp.allowFuture is the
\* variable allowFuture.
TempMin == -40
TempMax == 85
HumMin == 0
HumMax == 100
VersionMaxLength == 20

\* config.validation.uuid.format
\*   /^[0-9a-f]{8}-[0-9a-f]{4}-[0-9a-f]{4}-[0-9a-f]{4}-[0-9a-f]{12}$/i
UuidFormatTest(v) ==
  Bind(JSString(v), LAMBDA s :
    /\ Len(s) = 36
    /\ \A i \in 1..36 :
         IF i \in {9, 14, 19, 24} THEN s[i] = "-"
         ELSE s[i] \in Digit \cup HexLetter)

\* config.validation.actuator.format  /^[a-z0-9]$/i
ActuatorFormatTest(v) ==
  LET s == JSString(v)
  IN Len(s) = 1 /\ s[1] \in Lower \cup Upper \cup Digit

\* ---------------------------------------------------------- parse results
\* data: a function from property names to values; a name outside its
\* domain reads as undefined.
Get(data, k) == IF k \in DOMAIN data THEN data[k] ELSE Undefined
Put(data, k, v) == (k :> v) @@ data

\* One entry of validationErrors: the fixed text of the message and the text
\* interpolated into it.
Err(msg, detail) == [msg |-> msg, detail |-> detail]

\* validationErrors.push(e); valid = false
Reject(acc, e) ==
  [acc EXCEPT !.validationErrors = Append(@, e), !.valid = FALSE]

\* ------------------------------------------------- IotParser.parse, pipe
\* part.match(/^([a-z]+)(.*)$/): the key is the longest run of lower-case
\* letters the part starts with, the value is the rest.
matchPart(part) ==
  LET k == SkipWhile(part, 1, Lower)
  IN IF k = 1 \/ \E i \in k..Len(part) : part[i] \in LineTerminator
     THEN [ok |-> FALSE]
     ELSE [ok |-> TRUE, key |-> SubSeq(part, 1, k - 1),
           value |-> SubSeq(part, k, Len(part))]

\* case 'tt' with a timestamp equal to the clock taken for a future one.
caseTimestampNotBefore(acc, value, now) ==
  LET ts == parseInt(value)
      a == [acc EXCEPT !.data = Put(@, "timestamp", ts)]
  IN IF ts.t = "NaN" THEN Reject(a, Err("Invalid timestamp", value))
     ELSE IF ts.n >= Tenths(now) THEN Reject(a, Err("Future timestamp", value))
     ELSE a

\* case 'tt' (parser.js): the future check consults no rule.
caseTimestamp(acc, value, now) ==
  LET ts == parseInt(value)
      a == [acc EXCEPT !.data = Put(@, "timestamp", ts)]
  IN IF ts.t = "NaN" THEN Reject(a, Err("Invalid timestamp", value))
     ELSE IF ts.n > Tenths(now) THEN Reject(a, Err("Future timestamp", value))
     ELSE a

\* case 't'
caseTemperature(acc, value) ==
  LET x == parseFloat(value)
      a == [acc EXCEPT !.data = Put(@, "temperature", x)]
  IN IF x.t = "NaN" THEN Reject(a, Err("Invalid temperature", value))
     ELSE IF LessThan(x, Tenths(TempMin)) \/ GreaterThan(x, Tenths(TempMax))
       THEN Reject(a, Err("Temperature out of range", value))
     ELSE a

\* case 'h'
caseHumidity(acc, value) ==
  LET x == parseFloat(value)
      a == [acc EXCEPT !.data = Put(@, "humidity", x)]
  IN IF x.t = "NaN" THEN Reject(a, Err("Invalid humidity", value))
     ELSE IF LessThan(x, Tenths(HumMin)) \/ GreaterThan(x, Tenths(HumMax))
       THEN Reject(a, Err("Humidity out of range", value))
     ELSE a

\* case 'a' with the value stored under the key of the token.
caseActuatorUnderKey(acc, value) ==
  LET a == [acc EXCEPT !.data = Put(@, "a", Str(value))]
  IN IF ~ActuatorFormatTest(Str(value))
     THEN Reject(a, Err("Invalid actuator format", value))
     ELSE a

\* case 'a'
caseActuator(acc, value) ==
  LET a == [acc EXCEPT !.data = Put(@, "actuator", Str(value))]
  IN IF ~ActuatorFormatTest(Str(value))
     THEN Reject(a, Err("Invalid actuator format", value))
     ELSE a

\* case 'v' with the push kept and the "valid = false" dropped.
caseVersionKeepsValid(acc, value) ==
  LET a == [acc EXCEPT !.data = Put(@, "version", Str(value))]
  IN IF Len(value) = 0 \/ Len(value) > VersionMaxLength
     THEN [a EXCEPT !.validationErrors = Append(@, Err("Invalid version", value))]
     ELSE a

\* case 'v'
caseVersion(acc, value) ==
  LET a == [acc EXCEPT !.data = Put(@, "version", Str(value))]
  IN IF Len(value) = 0 \/ Len(value) > VersionMaxLength
     THEN Reject(a, Err("Invalid version", value))
     ELSE a

\* case 'uid'
caseUuid(acc, value) ==
  LET a == [acc EXCEPT !.data = Put(@, "uuid", Str(value))]
  IN IF ~UuidFormatTest(Str(value))
     THEN Reject(a, Err("Invalid UUID format", value))
     ELSE a

\* default
caseUnknown(acc, key) == Reject(acc, Err("Unknown key", key))

\* switch (key)
switchKey(acc, key, value, now) ==
  CASE key = <<"t","t">> -> caseTimestamp(acc, value, now)
    [] key = <<"t">> -> caseTemperature(acc, value)
    [] key = <<"h">> -> caseHumidity(acc, value)
    [] key = <<"a">> -> caseActuator(acc, value)
    [] key = <<"v">> -> caseVersion(acc, value)
    [] key = <<"u","i","d">> -> caseUuid(acc, value)
    [] OTHER -> caseUnknown(acc, key)

\* The body of `for (const part of parts)`.
parsePart(acc, part, now) ==
  Bind(matchPart(part), LAMBDA m :
    IF part = <<>> THEN acc
    ELSE IF ~m.ok THEN Reject(acc, Err("Invalid format for part", part))
    ELSE IF includes(m.value, " ") \/ includes(m.value, "|")
      THEN Reject(acc, Err("Invalid characters in",
                           m.key \o <<":", " ">> \o m.value))
    ELSE switchKey(acc, m.key, m.value, now))

RECURSIVE parsePartsUntilFailure(_, _, _, _)
\* The loop left at the first part that records a violation.
parsePartsUntilFailure(acc, parts, i, now) ==
  IF i > Len(parts) \/ ~acc.valid THEN acc
  ELSE Bind(parsePart(acc, parts[i], now),
            LAMBDA a : parsePartsUntilFailure(a, parts, i + 1, now))

RECURSIVE parseParts(_, _, _, _)
\* The loop over parts[i..].
parseParts(acc, parts, i, now) ==
  IF i > Len(parts) THEN acc
  ELSE Bind(parsePart(acc, parts[i], now),
            LAMBDA a : parseParts(a, parts, i + 1, now))

\* parts.map(part => part.match(/^([a-z]+)/)?.[1]).filter(Boolean)
keysOf(parts) ==
  LET key(part) == SubSeq(part, 1, SkipWhile(part, 1, Lower) - 1)
  IN [i \in {j \in 1..Len(parts) : key(parts[j]) # <<>>} |-> key(parts[i])]

\* The comparison made between neighbouring keys only.
hasNeighbouringDuplicateKeys(parts) ==
  Bind(keysOf(parts), LAMBDA keys :
    \E i, j \in DOMAIN keys :
      /\ i < j /\ keys[i] = keys[j]
      /\ \A k \in DOMAIN keys : ~(i < k /\ k < j))

\* new Set(keys).size !== keys.length
hasDuplicateKeys(parts) ==
  Bind(keysOf(parts), LAMBDA keys :
    \E i, j \in DOMAIN keys : i # j /\ keys[i] = keys[j])

\* Check for duplicate keys in pipe format
checkDuplicates(acc, parts) ==
  IF hasDuplicateKeys(parts)
  THEN Reject(acc, Err("Duplicate keys found", <<>>))
  ELSE acc

\* The pipe branch of parse: split, the (dead) empty-message check, the
\* loop, the duplicate check.
parsePipe(acc, str, now) ==
  Bind(split(str), LAMBDA parts :
    Bind(IF Len(parts) = 0 THEN Reject(acc, Err("Empty message", <<>>))
         ELSE acc, LAMBDA a0 :
      checkDuplicates(parseParts(a0, parts, 1, now), parts)))

\* ------------------------------------------------- IotParser.parse, JSON
\* The try block once JSON.parse has returned: the two required-field
\* checks, then the field mapping.
mapJson(acc, members) ==
  LET P(name) == Prop(members, Len(members), name)
      uuid == P(<<"u","u","i","d">>)
      device_id == P(<<"d","e","v","i","c","e","_","i","d">>)
      id == P(<<"i","d">>)
      timestamp == P(<<"t","i","m","e","s","t","a","m","p">>)
      a1 == IF ~Truthy(uuid) /\ ~Truthy(device_id) /\ ~Truthy(id)
            THEN Reject(acc, Err("Missing required UUID field in JSON", <<>>))
            ELSE acc
      a2 == IF ~Truthy(timestamp)
            THEN Reject(a1, Err("Missing required timestamp field in JSON", <<>>))
            ELSE a1
      d == a2.data
      d1 == Put(d, "uuid", Or(Or(uuid, device_id), id))
      d2 == Put(d1, "timestamp", timestamp)
      d3 == Put(d2, "temperature",
                Or(P(<<"t","e","m","p","e","r","a","t","u","r","e">>),
                   P(<<"t","e","m","p">>)))
      d4 == Put(d3, "humidity",
                Or(P(<<"h","u","m","i","d","i","t","y">>),
                   P(<<"h","u","m","i","d">>)))
      d5 == Put(d4, "version",
                Or(P(<<"v","e","r","s","i","o","n">>), P(<<"v","e","r">>)))
      d6 == Put(d5, "actuator", P(<<"a","c","t","u","a","t","o","r">>))
  IN [a2 EXCEPT !.data = d6]

\* The JSON branch with a catch that leaves format as it was.
parseJsonKeepsFormat(acc, str) ==
  Bind(JSONparse(str), LAMBDA j :
    IF j.threw
    THEN Reject(acc, Err("Invalid JSON format", <<"S","y","n","t","a","x",
                                                  "E","r","r","o","r">>))
    ELSE mapJson(acc, j.members))

\* The JSON branch of parse: try { JSON.parse ... } catch.
parseJson(acc, str) ==
  Bind(JSONparse(str), LAMBDA j :
    IF j.threw
    THEN [Reject(acc, Err("Invalid JSON format", <<"S","y","n","t","a","x",
                                                   "E","r","r","o","r">>))
           EXCEPT !.format = "invalid-json"]
    ELSE mapJson(acc, j.members))

\* The detection without the trim.
detectJsonUntrimmed(str) == startsWith(str, "{")

\* str.trim().startsWith('{')
detectJson(str) == startsWith(trim(str), "{")

\* ------------------------------------ IotParser.parse, common validation
validateTemperature(acc) ==
  LET x == Get(acc.data, "temperature")
  IN IF x # Undefined
        /\ (LessThan(x, Tenths(TempMin)) \/ GreaterThan(x, Tenths(TempMax)))
     THEN Reject(acc, Err("Temperature out of range", JSString(x)))
     ELSE acc

validateHumidity(acc) ==
  LET x == Get(acc.data, "humidity")
  IN IF x # Undefined
        /\ (LessThan(x, Tenths(HumMin)) \/ GreaterThan(x, Tenths(HumMax)))
     THEN Reject(acc, Err("Humidity out of range", JSString(x)))
     ELSE acc

validateUuid(acc) ==
  LET u == Get(acc.data, "uuid")
  IN IF Truthy(u) /\ ~UuidFormatTest(u)
     THEN Reject(acc, Err("Invalid UUID format", JSString(u)))
     ELSE acc

\* if (!data.uuid || (!data.timestamp && !data.tt))
validateRequired(acc) ==
  IF \/ ~Truthy(Get(acc.data, "uuid"))
     \/ (~Truthy(Get(acc.data, "timestamp")) /\ ~Truthy(Get(acc.data, "tt")))
  THEN Reject(acc, Err("Missing required fields (uuid or timestamp)", <<>>))
  ELSE acc

\* if (valid) { ... }
validateCommon(acc) ==
  IF acc.valid
  THEN Bind(validateTemperature(acc), LAMBDA a1 :
         Bind(validateHumidity(a1), LAMBDA a2 :
           Bind(validateUuid(a2), LAMBDA a3 : validateRequired(a3))))
  ELSE acc

\* ------------------------------------------------------- IotParser.parse
\* parse(str, topic) at clock now (epoch seconds).  processingTime, a
\* difference of two clock readings, is left out.
parse(str, topic, now) ==
  Bind([data |-> ("_topic" :> Str(topic)) @@ ("_receivedAt" :> DateAt(now)),
        valid |-> TRUE, validationErrors |-> <<>>, format |-> "unknown"],
       LAMBDA acc0 :
    Bind(IF detectJson(str)
         THEN parseJson([acc0 EXCEPT !.format = "json"], str)
         ELSE parsePipe([acc0 EXCEPT !.format = "pipe"], str, now),
         LAMBDA acc1 :
      Bind(validateCommon(acc1), LAMBDA acc2 :
        [valid |-> acc2.valid, data |-> acc2.data, original |-> str,
         validationErrors |-> acc2.validationErrors, topic |-> topic,
         format |-> acc2.format])))

\* ----------------------------------------------- parserWorker.js, worker
\* case 'tt' (parserWorker.js): the future check asks the rule set.
workerCaseTimestamp(acc, value, now, allowFut) ==
  LET ts == parseInt(value)
      a == [acc EXCEPT !.data = Put(@, "timestamp", ts)]
  IN IF ts.t = "NaN" THEN Reject(a, Err("Invalid timestamp", value))
     ELSE IF ~allowFut /\ ts.n > Tenths(now)
       THEN Reject(a, Err("Future timestamp", value))
     ELSE a

\* switch (key) of the worker; but for 'tt' its cases read as the parser's.
workerSwitchKey(acc, key, value, now, allowFut) ==
  CASE key = <<"t","t">> -> workerCaseTimestamp(acc, value, now, allowFut)
    [] key = <<"t">> -> caseTemperature(acc, value)
    [] key = <<"h">> -> caseHumidity(acc, value)
    [] key = <<"a">> -> caseActuator(acc, value)
    [] key = <<"v">> -> caseVersion(acc, value)
    [] key = <<"u","i","d">> -> caseUuid(acc, value)
    [] OTHER -> caseUnknown(acc, key)

workerParsePart(acc, part, now, allowFut) ==
  Bind(matchPart(part), LAMBDA m :
    IF part = <<>> THEN acc
    ELSE IF ~m.ok THEN Reject(acc, Err("Invalid format for part", part))
    ELSE IF includes(m.value, " ") \/ includes(m.value, "|")
      THEN Reject(acc, Err("Invalid characters in",
                           m.key \o <<":", " ">> \o m.value))
    ELSE workerSwitchKey(acc, m.key, m.value, now, allowFut))

RECURSIVE workerParseParts(_, _, _, _, _)
workerParseParts(acc, parts, i, now, allowFut) ==
  IF i > Len(parts) THEN acc
  ELSE Bind(workerParsePart(acc, parts[i], now, allowFut),
            LAMBDA a : workerParseParts(a, parts, i + 1, now, allowFut))

\* Check required fields (uuid.required and timestamp.required are true)
workerRequired(acc) ==
  Bind(IF ~Truthy(Get(acc.data, "uuid"))
       THEN Reject(acc, Err("Missing required field: uuid", <<>>))
       ELSE acc, LAMBDA a1 :
    IF ~Truthy(Get(a1.data, "timestamp"))
    THEN Reject(a1, Err("Missing required field: timestamp", <<>>))
    ELSE a1)

\* parseMessage(str, topic): every message is read as pipe text, and the
\* result carries no format.
parseMessage(str, topic, now, allowFut) ==
  Bind(split(str), LAMBDA parts :
    Bind([data |-> ("_topic" :> Str(topic)) @@ ("_receivedAt" :> DateAt(now))
                   @@ ("_workerId" :> [t |-> "pid"]),
          valid |-> TRUE, validationErrors |-> <<>>], LAMBDA acc0 :
      Bind(IF Len(parts) = 0 THEN Reject(acc0, Err("Empty message", <<>>))
           ELSE acc0, LAMBDA a0 :
        Bind(workerParseParts(a0, parts, 1, now, allowFut), LAMBDA a1 :
          Bind(workerRequired(a1), LAMBDA r :
            Bind(checkDuplicates(r, parts), LAMBDA a2 :
              [valid |-> a2.valid, data |-> a2.data, original |-> str,
               validationErrors |-> a2.validationErrors,
               topic |-> topic]))))))

\* parentPort.on('message'): the result posted back; if parseMessage throws
\* (fault), the result of the catch block.
workerOnMessage(str, topic, now, allowFut, fault) ==
  IF fault
  THEN [valid |-> FALSE, data |-> <<>>, original |-> str,
        validationErrors |-> <<Err("Worker error", <<>>)>>, topic |-> topic]
  ELSE parseMessage(str, topic, now, allowFut)

\* -------------------------------------- handleMessage and handleParsed
\* The parameters of handleParsed: the result destructured, validationErrors
\* defaulting to [], topic to 'unknown' and format to 'pipe'.
handleParsedArgs(result) ==
  [valid |-> result.valid, data |-> result.data, original |-> result.original,
   validationErrors |-> IF "validationErrors" \in DOMAIN result
                        THEN result.validationErrors ELSE <<>>,
   topic |-> IF "topic" \in DOMAIN result THEN result.topic ELSE "unknown",
   format |-> IF "format" \in DOMAIN result THEN result.format ELSE "pipe"]

\* handleMessage without workers: parse(str, topic) on the trimmed text, the
\* result handed to handleParsed.
handleMessageSync(msg, tpc, clock) ==
  Bind(trim(msg), LAMBDA str :
    Bind(parse(str, tpc, clock), LAMBDA result : handleParsedArgs(result)))

\* handleMessage with workers: { str, topic } posted to a worker, whose
\* result the 'message' handler hands to handleParsed.
handleMessageWorker(msg, tpc, clock, allowFut, fault) ==
  Bind(trim(msg), LAMBDA str :
    Bind(workerOnMessage(str, tpc, clock, allowFut, fault),
         LAMBDA result : handleParsedArgs(result)))

\* --------------------------------------------------------------- Logger
\* The texts of the log messages of parser.js, as the characters written to
\* the log file; counts and the emoji interpolated into them are left out.
LogText ==
  [
    initWorkers |->
      <<"I","n","i","t","i","a","l","i","z","i","n","g"," ","w","o","r","k",
        "e","r"," ","t","h","r","e","a","d","s">>,
    initInflux |->
      <<"I","n","i","t","i","a","l","i","z","i","n","g"," ","I","n","f","l",
        "u","x","D","B"," ","c","o","n","n","e","c","t","i","o","n">>,
    influxReady |->
      <<"I","n","f","l","u","x","D","B"," ","c","l","i","e","n","t"," ","i",
        "n","i","t","i","a","l","i","z","e","d"," ","s","u","c","c","e","s",
        "s","f","u","l","l","y">>,
    caMissing |->
      <<"C","A"," ","f","i","l","e"," ","m","i","s","s","i","n","g">>,
    connecting |->
      <<"C","o","n","n","e","c","t","i","n","g"," ","t","o"," ","M","Q","T",
        "T"," ","b","r","o","k","e","r">>,
    connected |->
      <<"M","Q","T","T"," ","c","o","n","n","e","c","t","e","d"," ","s","u",
        "c","c","e","s","s","f","u","l","l","y">>,
    subscribeError |->
      <<"S","u","b","s","c","r","i","b","e"," ","e","r","r","o","r">>,
    subscribed |->
      <<"S","u","b","s","c","r","i","b","e","d"," ","t","o"," ","t","o","p",
        "i","c","s",":"," ","I","D","G","S","1","0","-","P","r","u","e","b",
        "a","s","-","S","e","n","s","o","r","e","s">>,
    connectionError |->
      <<"M","Q","T","T"," ","c","o","n","n","e","c","t","i","o","n"," ","e",
        "r","r","o","r">>,
    connectionClosed |->
      <<"M","Q","T","T"," ","c","o","n","n","e","c","t","i","o","n"," ","c",
        "l","o","s","e","d">>,
    reconnection |->
      <<"M","Q","T","T"," ","r","e","c","o","n","n","e","c","t","i","o","n",
        " ","a","t","t","e","m","p","t">>,
    maxReconnection |->
      <<"M","a","x"," ","r","e","c","o","n","n","e","c","t","i","o","n"," ",
        "a","t","t","e","m","p","t","s"," ","r","e","a","c","h","e","d">>,
    received |->
      <<"M","e","s","s","a","g","e"," ","r","e","c","e","i","v","e","d">>,
    validated |->
      <<"M","e","s","s","a","g","e"," ","v","a","l","i","d","a","t","e","d",
        " ","s","u","c","c","e","s","s","f","u","l","l","y">>,
    validationFailed |->
      <<"M","e","s","s","a","g","e"," ","v","a","l","i","d","a","t","i","o",
        "n"," ","f","a","i","l","e","d">>,
    written |->
      <<"D","a","t","a"," ","w","r","i","t","t","e","n"," ","t","o"," ","I",
        "n","f","l","u","x","D","B">>,
    writeError |->
      <<"I","n","f","l","u","x","D","B"," ","w","r","i","t","e"," ","e","r",
        "r","o","r">>,
    workerError |->
      <<"W","o","r","k","e","r"," ","e","r","r","o","r">>
  ]

\* The logger holds its stats, and stats holds a reference to a
\* messagesByHour object: objects maps each reference in use, a number, to
\* the object it refers to.  file is the lines appended to the log file.  A
\* clock reading is the hour of the day, h.

\* The stats object of the constructor and of resetStats.
newStats(ref, h) ==
  [totalMessages |-> 0, validMessages |-> 0, invalidMessages |-> 0,
   errors |-> 0, lastReset |-> h, messagesByHour |-> ref,
   validationRate |-> Num(0)]

\* updateStats(level, data) at hour h.  (validMessages / totalMessages *
\* 100).toFixed(2) is the text of the nearest number of two decimals, kept
\* as its count of hundredths.
updateStats(L, level, h) ==
  LET st == L.stats
      ref == st.messagesByHour
      seen == L.objects[ref]
      hours == IF h \in DOMAIN seen /\ seen[h] # 0 THEN seen ELSE Put(seen, h, 0)
      total == st.totalMessages + 1
      valid == st.validMessages + (IF level = "success" THEN 1 ELSE 0)
  IN [L EXCEPT
        !.objects[ref] = [hours EXCEPT ![h] = @ + 1],
        !.stats = [st EXCEPT
          !.totalMessages = total,
          !.validMessages = valid,
          !.invalidMessages = @ + (IF level = "warn" THEN 1 ELSE 0),
          !.errors = @ + (IF level = "error" THEN 1 ELSE 0),
          !.validationRate =
            IF total > 0
            THEN [t |-> "fixed",
                  hundredths |-> (2 * 10000 * valid + total) \div (2 * total)]
            ELSE Num(0)]]

\* this.logger.log(level, message, data) in parser P: the line appended to
\* the file if enableFile, then updateStats.  Console output and the 'log'
\* event, which nothing in the parser listens to, are left out.
log(P, cfg, level, message, data, h) ==
  [P EXCEPT !.logger =
     updateStats(
       IF cfg.logging.enableFile
       THEN [@ EXCEPT !.file = Append(@, [timestamp |-> h, level |-> level,
                                          message |-> message, data |-> data])]
       ELSE @,
       level, h)]

\* getStats(): { ...this.stats, uptime }, the properties of stats copied one
\* by one, messagesByHour as the reference it is.
getStats(L, h) == ("uptime" :> (h - L.stats.lastReset)) @@ L.stats

\* resetStats() that leaves validationRate as it was.
resetStatsKeepsRate(L, h, held) ==
  LET ref == Least({ r \in 1..(Cardinality(held) + 1) : r \notin held })
  IN [L EXCEPT
        !.stats = [newStats(ref, h)
                     EXCEPT !.validationRate = L.stats.validationRate],
        !.objects = [r \in held \cup {ref} |->
                       IF r = ref THEN <<>> ELSE L.objects[r]]]

\* resetStats(): a new stats object with a new messagesByHour object.  held
\* is the references that callers of getStats() keep; an old object that
\* nothing refers to any more is garbage, and forgotten.
resetStats(L, h, held) ==
  LET ref == Least({ r \in 1..(Cardinality(held) + 1) : r \notin held })
  IN [L EXCEPT
        !.stats = newStats(ref, h),
        !.objects = [r \in held \cup {ref} |->
                       IF r = ref THEN <<>> ELSE L.objects[r]]]

\* ------------------------------------------- IotParser, after the parse
\* What the parser's methods change: the logger; the events emitted to the
\* parser's listeners, kept as how many of each name and the last one; and
\* the calls of writeToInfluxDB, kept as how many were made, how many wrote
\* a point, and the last point written.

\* The program's configuration, as far as the methods below read it.
Config(useWorkers, numWorkers, influx, enableFile) ==
  [parser |-> [useWorkers |-> useWorkers, numWorkers |-> numWorkers],
   influxdb |-> [enabled |-> influx],
   logging |-> [enableFile |-> enableFile]]

\* emit that reaches the listeners of 'data' only.
emitDataOnly(P, event, payload) ==
  IF event = "data"
  THEN [P EXCEPT !.emitted = [@ EXCEPT ![event] = @ + 1,
                                       !.last = [event |-> event,
                                                 payload |-> payload]]]
  ELSE P

\* this.emit(event, payload)
emit(P, event, payload) ==
  [P EXCEPT !.emitted = [@ EXCEPT ![event] = @ + 1,
                                  !.last = [event |-> event,
                                            payload |-> payload]]]

\* new IotParser(): the logger made; if InfluxDB is enabled, what
\* initInfluxDB() logs when the client is made without an exception; if
\* useWorkers, what initWorkers(numWorkers) logs (the pool it fills is Pool
\* below).
construct(cfg, h) ==
  Bind([logger |-> [stats |-> newStats(1, h), objects |-> (1 :> <<>>),
                    file |-> <<>>],
        emitted |-> [data |-> 0, error |-> 0, last |-> Null],
        points |-> [calls |-> 0, written |-> 0, last |-> Null]],
       LAMBDA P0 :
    Bind(IF cfg.influxdb.enabled
         THEN log(log(P0, cfg, "info", LogText.initInflux, Null, h),
                  cfg, "success", LogText.influxReady, Null, h)
         ELSE P0, LAMBDA P1 :
      IF cfg.parser.useWorkers
      THEN log(P1, cfg, "info", LogText.initWorkers, Null, h)
      ELSE P1))

\* connect(), up to the handlers it sets: the CA file missing, or found.
connect(P, cfg, h, caFound) ==
  IF caFound THEN log(P, cfg, "info", LogText.connecting, Null, h)
  ELSE log(P, cfg, "error", LogText.caMissing, Null, h)

\* writeToInfluxDB(data), its body running before handleParsed goes on (it
\* awaits nothing); throws says that making or writing the point threw.
\* data._format || 'pipe': a format is never the empty text, so it stands
\* unless undefined.
writeToInfluxDB(P, cfg, writeApi, data, h, throws) ==
  Bind([P EXCEPT !.points.calls = @ + 1], LAMBDA called :
    IF ~writeApi THEN called
    ELSE IF throws
      THEN log(called, cfg, "error", LogText.writeError, Null, h)
    ELSE log([called EXCEPT
                !.points.written = @ + 1,
                !.points.last =
                  [device_uuid |-> Get(data, "uuid"),
                   topic |-> Get(data, "_topic"),
                   format |-> IF Get(data, "_format") # Undefined
                              THEN Get(data, "_format") ELSE Str("pipe"),
                   timestamp |-> Get(data, "timestamp"),
                   fields |->
                     [k \in { f \in {"temperature", "humidity", "actuator"} :
                                Get(data, f) # Undefined }
                            \cup { f \in {"version"} : Truthy(Get(data, f)) }
                      |-> Get(data, k)]]],
             cfg, "debug", LogText.written,
             [uuid |-> Get(data, "uuid")], h))

\* The two assignments that overwrite _topic instead.
annotateOverTopic(data, format) ==
  Put(Put(data, "_topic", Str(format)), "_processingTime", [t |-> "duration"])

\* data._format = format; data._processingTime = processingTime
annotate(data, format) ==
  Put(Put(data, "_format", Str(format)), "_processingTime", [t |-> "duration"])

\* handleParsed(result): the parser afterwards, and the result object
\* afterwards (data is the result's own data object, not a copy).
handleParsed(P, cfg, writeApi, result, h, throws) ==
  Bind(handleParsedArgs(result), LAMBDA a :
    IF a.valid
    THEN Bind(log(P, cfg, "success", LogText.validated,
                     [uuid |-> Get(a.data, "uuid"),
                      temperature |-> Get(a.data, "temperature"),
                      humidity |-> Get(a.data, "humidity"),
                      format |-> a.format, topic |-> a.topic], h),
              LAMBDA P1 :
           Bind(annotate(a.data, a.format), LAMBDA data :
             Bind(IF cfg.influxdb.enabled /\ writeApi
                  THEN writeToInfluxDB(P1, cfg, writeApi, data, h, throws)
                  ELSE P1, LAMBDA P2 :
               [parser |-> emit(P2, "data", data),
                result |-> [result EXCEPT !.data = data]])))
    ELSE Bind(log(P, cfg, "warn", LogText.validationFailed,
                     [original |-> a.original, errors |-> a.validationErrors,
                      format |-> a.format, topic |-> a.topic], h),
              LAMBDA P1 :
           [parser |-> emit(P1, "error",
                            [message |-> "Invalid data",
                             original |-> a.original,
                             validationErrors |-> a.validationErrors,
                             format |-> a.format, topic |-> a.topic]),
            result |-> result]))

\* workerPool.shift() with the worker put back at the front.
dispatchToFront(pool) ==
  [worker |-> Head(pool), pool |-> <<Head(pool)>> \o Tail(pool)]

\* worker = workerPool.shift(); ...; workerPool.push(worker)
dispatch(pool) ==
  [worker |-> Head(pool), pool |-> Append(Tail(pool), Head(pool))]

\* A worker handler that posts nothing when parseMessage throws.
workerPostsUnlessFault(job, now, allowFut, fault) ==
  IF fault THEN <<>>
  ELSE <<workerOnMessage(job.str, job.topic, now, allowFut, FALSE)>>

\* parentPort.on('message'): what the handler posts back for one message.
workerPosts(job, now, allowFut, fault) ==
  <<workerOnMessage(job.str, job.topic, now, allowFut, fault)>>

\* ------------------------------------------------ MQTT client handlers
\* this.maxReconnectAttempts
maxReconnectAttempts == 5

\* this.reconnectAttempts > this.maxReconnectAttempts
reachedMaxPast(attempts) == attempts > maxReconnectAttempts

\* this.reconnectAttempts >= this.maxReconnectAttempts
reachedMax(attempts) == attempts >= maxReconnectAttempts

\* ------------------------------------------------- StatisticsGenerator
\* The body of `for (const log of logs)`: the counts by level and by hour,
\* and the switch on the level.  The first and last time, the count by day
\* and the sensor figures of the 'success' case are left out.
\* Tally is table[key] = (table[key] || 0) + 1, includesInvalid is
\* text.includes('Invalid').
countLog(stats, entry) ==
  LET Tally(table, key) ==
        Put(table, key, (IF key \in DOMAIN table THEN table[key] ELSE 0) + 1)
      includesInvalid(text) ==
        \E i \in 1..(Len(text) - 6) :
          SubSeq(text, i, i + 6) = <<"I","n","v","a","l","i","d">>
  IN Bind([stats EXCEPT
             !.messagesByLevel = Tally(@, entry.level),
             !.messagesByHour = Tally(@, entry.timestamp)], LAMBDA s :
       CASE entry.level = "success" ->
              [s EXCEPT !.summary.validMessages = @ + 1]
         [] entry.level = "warn" ->
              Bind([s EXCEPT !.summary.invalidMessages = @ + 1], LAMBDA w :
                IF entry.message # <<>> /\ includesInvalid(entry.message)
                THEN [w EXCEPT !.validationErrors = Tally(@, entry.message)]
                ELSE w)
         [] entry.level = "error" ->
              [s EXCEPT !.summary.errors = @ + 1]
         [] OTHER -> s)

\* generateStatistics() over the lines of the log file.  readLogFiles()
\* reads every line back with JSON.parse and skips a line that does not
\* parse; the logger writes each line with JSON.stringify, so every line
\* parses, to the entry written.
generateStatistics(file) ==
  LET RECURSIVE countLogs(_, _)
      countLogs(stats, i) ==
        IF i > Len(file) THEN stats
        ELSE countLogs(countLog(stats, file[i]), i + 1)
  IN countLogs([summary |-> [totalLogs |-> Len(file), validMessages |-> 0,
                             invalidMessages |-> 0, errors |-> 0],
                messagesByLevel |-> <<>>, messagesByHour |-> <<>>,
                validationErrors |-> <<>>], 1)

\* ----------------------------------------------------------------- inputs
\* A message is drawn as what its sender meant: for pipe text the tokens,
\* each a key and a value; for JSON text the members, each a key and the
\* literal of its value, and the way the text is closed.  Text(m) is the
\* text sent.

UuidOf(c) == [i \in 1..36 |-> IF i \in {9, 14, 19, 24} THEN "-" ELSE c]
UuidDigits == UuidOf("5")
UuidLower == UuidOf("a")
UuidUpper == UuidOf("A")
UuidShort == <<"1","2","3","4","5","6">>
LongVersion == [i \in 1..(VersionMaxLength + 1) |-> "9"]

Tok(k, v) == [key |-> k, value |-> v]
KeyTT == <<"t","t">>
KeyUID == <<"u","i","d">>

TimestampTokens ==
  { Tok(KeyTT, <<"0">>), Tok(KeyTT, <<"2">>), Tok(KeyTT, <<"3">>),
    Tok(KeyTT, <<"9">>), Tok(KeyTT, <<>>) }

UuidTokens ==
  { Tok(KeyUID, UuidDigits), Tok(KeyUID, UuidLower), Tok(KeyUID, UuidUpper),
    Tok(KeyUID, UuidShort) }

ExtraTokens ==
  { Tok(<<"t">>, <<"2","3",".","5">>), Tok(<<"t">>, <<"8","5">>),
    Tok(<<"t">>, <<"-","4","0">>), Tok(<<"t">>, <<"8","5",".","1">>),
    Tok(<<"t">>, <<>>), Tok(<<"t">>, <<"2"," ","5">>),
    Tok(<<"h">>, <<"0">>), Tok(<<"h">>, <<"1","0","0",".","1">>),
    Tok(<<"a">>, <<"1">>), Tok(<<"a">>, <<"b">>), Tok(<<"a">>, <<"1","2">>),
    Tok(<<"v">>, <<"1",".","0">>), Tok(<<"v">>, <<"b","e","t","a">>),
    Tok(<<"v">>, LongVersion),
    Tok(<<"x">>, <<"1">>), Tok(<<>>, <<"9","z">>),
    Tok(KeyTT, <<"2">>) }

\* Sequences of at most n elements of S.
RECURSIVE SeqsUpTo(_, _)
SeqsUpTo(S, n) ==
  IF n = 0 THEN {<<>>}
  ELSE LET shorter == SeqsUpTo(S, n - 1)
       IN shorter \cup {Append(q, x) : q \in shorter, x \in S}

Opt(S) == {<<>>} \cup {<<x>> : x \in S}

PipeMessages ==
  { [enc |-> "pipe", lead |-> <<>>, tokens |-> ts \o us \o ex] :
      ts \in Opt(TimestampTokens), us \in Opt(UuidTokens),
      ex \in SeqsUpTo(ExtraTokens, MaxExtra) }

Quoted(s) == <<"\"">> \o s \o <<"\"">>
Mem(k, lit) == [key |-> k, lit |-> lit]
KeyTimestamp == <<"t","i","m","e","s","t","a","m","p">>
KeyUuid == <<"u","u","i","d">>
KeyTemperature == <<"t","e","m","p","e","r","a","t","u","r","e">>
KeyHumidity == <<"h","u","m","i","d","i","t","y">>

TimestampMembers ==
  { Mem(KeyTimestamp, <<"2">>), Mem(KeyTimestamp, <<"9">>),
    Mem(KeyTimestamp, <<"0">>),
    Mem(KeyTimestamp, Quoted(<<"n","o","t","_","a","_","n","u","m","b","e","r">>)) }

UuidMembers ==
  { Mem(KeyUuid, Quoted(UuidDigits)), Mem(KeyUuid, Quoted(UuidShort)),
    Mem(<<"d","e","v","i","c","e","_","i","d">>, Quoted(UuidLower)),
    Mem(<<"i","d">>, Quoted(UuidUpper)) }

ExtraMembers ==
  { Mem(KeyTemperature, <<"2","3",".","5">>), Mem(KeyTemperature, <<"8","5">>),
    Mem(KeyTemperature, <<"-","4","0">>), Mem(KeyTemperature, <<"1","5","0">>),
    Mem(KeyTemperature, Quoted(<<"h","o","t">>)),
    Mem(<<"t","e","m","p">>, <<"2","2",".","1">>),
    Mem(KeyHumidity, <<"1","0","0",".","1">>), Mem(KeyHumidity, <<"0">>),
    Mem(<<"a","c","t","u","a","t","o","r">>, Quoted(<<"1">>)),
    Mem(<<"a","c","t","u","a","t","o","r">>, Quoted(<<"x","y","z">>)),
    Mem(<<"v","e","r","s","i","o","n">>, Quoted(<<"1",".","0">>)),
    Mem(<<"v","e","r","s","i","o","n">>, Quoted(LongVersion)),
    Mem(<<"v","e","r">>, Quoted(<<"1",".","2">>)) }

JsonMessages ==
  { [enc |-> "json", lead |-> <<>>, members |-> ts \o us \o ex, closed |-> TRUE] :
      ts \in Opt(TimestampMembers), us \in Opt(UuidMembers),
      ex \in SeqsUpTo(ExtraMembers, MaxExtra) }

\* A valid message of each encoding, for the variations below.
GoodPipe == <<Tok(KeyTT, <<"2">>), Tok(KeyUID, UuidDigits)>>
GoodJson == <<Mem(KeyTimestamp, <<"2">>), Mem(KeyUuid, Quoted(UuidDigits))>>

\* Messages with white space before the text, JSON text left open, JSON
\* text with a bare word for a value, and JSON members of other types.
VariedMessages ==
  { [enc |-> "pipe", lead |-> l, tokens |-> GoodPipe] : l \in {<<" ">>, <<"NBSP">>} }
  \cup { [enc |-> "json", lead |-> l, members |-> GoodJson, closed |-> TRUE] :
           l \in {<<" ">>, <<"NBSP">>, <<"LF", " ">>} }
  \cup { [enc |-> "json", lead |-> <<>>, members |-> GoodJson, closed |-> FALSE] }
  \cup { [enc |-> "json", lead |-> <<>>, members |-> Append(GoodJson, m),
          closed |-> TRUE] :
           m \in { Mem(<<"m","a","l","f","o","r","m","e","d">>, <<"j","s","o","n">>),
                   Mem(KeyTemperature, <<"t","r","u","e">>),
                   Mem(KeyHumidity, Quoted(<<"w","e","t">>)),
                   Mem(KeyHumidity, <<"n","u","l","l">>) } }
  \cup { [enc |-> "json", lead |-> <<>>, closed |-> TRUE,
          members |-> <<Mem(KeyTimestamp, <<"1",".","5">>),
                        Mem(KeyUuid, Quoted(UuidDigits))>>],
         [enc |-> "json", lead |-> <<>>, closed |-> TRUE,
          members |-> <<Mem(KeyTimestamp, <<"2">>), Mem(KeyUuid, <<"1","2","3">>)>>] }

\* Pipe messages in which a key comes three times, and in which two keys
\* come twice each.
RepeatedKeyMessages ==
  { [enc |-> "pipe", lead |-> <<>>,
     tokens |-> <<Tok(<<"t">>, <<"2","3",".","5">>), Tok(<<"t">>, <<"8","5">>),
                  Tok(<<"t">>, <<"-","4","0">>)>>],
    [enc |-> "pipe", lead |-> <<>>,
     tokens |-> GoodPipe \o GoodPipe] }

Messages ==
  PipeMessages \cup JsonMessages \cup VariedMessages \cup RepeatedKeyMessages

RECURSIVE Join(_, _, _)
\* The texts of items[i..], sep between each two.
Join(items, i, sep) ==
  IF i > Len(items) THEN <<>>
  ELSE IF i = Len(items) THEN items[i]
  ELSE items[i] \o sep \o Join(items, i + 1, sep)

\* `key1value1|key2value2|...`
PipeText(tokens) ==
  Join([i \in 1..Len(tokens) |-> tokens[i].key \o tokens[i].value], 1, <<"|">>)

\* `{"key1":literal1,"key2":literal2}`, the closing brace left out when the
\* text is not closed
JsonText(members, closed) ==
  <<"{">>
  \o Join([i \in 1..Len(members) |->
            Quoted(members[i].key) \o <<":">> \o members[i].lit], 1, <<",">>)
  \o (IF closed THEN <<"}">> ELSE <<>>)

Text(m) ==
  m.lead \o (IF m.enc = "pipe" THEN PipeText(m.tokens)
             ELSE JsonText(m.members, m.closed))

Topics == {"IDGS10-Pruebas-Sensores"}

\* ------------------------------------------------------------ state machine
VARIABLES
  sent,         \* the message as its sender built it
  message,      \* its text, as received
  topic,        \* the topic it came on
  allowFuture,  \* config.validation.timestamp.allowFuture
  now,          \* the wall clock, in epoch seconds
  call,         \* the operation applied to the message: "none" before
  out,          \* what that operation produced
  prev,         \* what an earlier parse of the same message produced
  config,       \* this.config
  writeApi,     \* whether this.writeApi is set
  hour,         \* the wall clock's hour of the day
  logger,       \* this.logger: its stats, messagesByHour objects and file
  emitted,      \* the events emitted to the parser's listeners, counted
  points,       \* the calls of writeToInfluxDB, counted
  workerPool,   \* this.workerPool, the workers by number
  inbox,        \* per worker, the messages posted to it and not yet handled
  outbox,       \* per worker, the results it posted, not yet seen by the parser
  posted,       \* per worker, how many results it has posted
  dispatched,   \* the workers messages were posted to, in order
  received,     \* how many messages handleMessage has taken
  handled,      \* the results handed to handleParsed: how many, how many valid,
                \* and the last one as given and as left
  mqttClient,   \* "none" before connect(), then "open", "ended" after end()
  connected,    \* this.connected
  reconnectAttempts,  \* this.reconnectAttempts
  subscribing,  \* subscribe calls whose callback has not run
  lastEvent,    \* the last of 'connect', 'error', 'close', 'reconnect'
  snapshot,     \* the object getStats() returned last
  report        \* what generateStatistics() returned last

parsing == <<sent, message, topic, allowFuture, now, call, out, prev>>
service ==
  <<config, writeApi, hour, logger, emitted, points, workerPool, inbox,
    outbox, posted, dispatched, received, handled, mqttClient, connected,
    reconnectAttempts, subscribing, lastEvent, snapshot, report>>
vars == <<parsing, service>>

NoResult == [none |-> TRUE]

\* The messages that arrive while the parser is in service: a valid pipe
\* message, a pipe message whose temperature and humidity are out of range,
\* and a valid JSON message; their texts, as handleMessage trims them.
ServiceTexts ==
  { trim(Text(m)) : m \in
      { [enc |-> "pipe", lead |-> <<>>, tokens |-> GoodPipe],
        [enc |-> "pipe", lead |-> <<>>,
         tokens |-> GoodPipe \o <<Tok(<<"t">>, <<"8","5",".","1">>),
                                  Tok(<<"h">>, <<"1","0","0",".","1">>)>>],
        [enc |-> "json", lead |-> <<>>, members |-> GoodJson,
         closed |-> TRUE] } }

\* What parse and the worker's handler make of each at the clock Now0,
\* worked out once.
ParsedAtNow0 ==
  [str \in ServiceTexts |-> [tpc \in Topics |-> parse(str, tpc, Now0)]]
PostedAtNow0 ==
  [str \in ServiceTexts |-> [tpc \in Topics |->
     [allowFut \in BOOLEAN |-> [fault \in BOOLEAN |->
        workerPosts([str |-> str, topic |-> tpc], Now0, allowFut, fault)]]]]

\* The pool initWorkers(numWorkers) fills: the workers, numbered as its loop
\* numbers them.
Pool(numWorkers) ==
  IF numWorkers > 0 THEN [i \in 1..numWorkers |-> i - 1] ELSE <<>>

\* The configurations: workers off; workers on with 1..MaxWorkers workers;
\* workers on with a negative NUM_WORKERS, which starts none.
Configs(enableFile) ==
  { Config(FALSE, MaxWorkers, influx, enableFile) : influx \in BOOLEAN }
  \cup { Config(TRUE, n, influx, enableFile) :
           n \in {-1} \cup 1..MaxWorkers, influx \in BOOLEAN }

\* The parser as its methods see it, and the parser they leave.
Parser == [logger |-> logger, emitted |-> emitted, points |-> points]
Becomes(P) ==
  /\ logger' = P.logger
  /\ emitted' = P.emitted
  /\ points' = P.points

\* The state new IotParser(cfg) leaves, at hour 0; started, the state that
\* connect() then leaves when it finds the CA file.
InService(cfg, started) ==
  /\ config = cfg
  /\ writeApi = cfg.influxdb.enabled
  /\ hour = 0
  /\ \E P \in {IF started THEN connect(construct(cfg, 0), cfg, 0, TRUE)
                ELSE construct(cfg, 0)} :
       /\ logger = P.logger
       /\ emitted = P.emitted
       /\ points = P.points
  /\ workerPool = IF cfg.parser.useWorkers THEN Pool(cfg.parser.numWorkers)
                  ELSE <<>>
  /\ inbox = [w \in 0..(cfg.parser.numWorkers - 1) |-> <<>>]
  /\ outbox = [w \in 0..(cfg.parser.numWorkers - 1) |-> <<>>]
  /\ posted = [w \in 0..(cfg.parser.numWorkers - 1) |-> 0]
  /\ dispatched = <<>>
  /\ received = 0
  /\ handled = [results |-> 0, valid |-> 0, given |-> Null, left |-> Null]
  /\ mqttClient = IF started THEN "open" ELSE "none"
  /\ connected = FALSE
  /\ reconnectAttempts = 0
  /\ subscribing = 0
  /\ lastEvent = "none"
  /\ snapshot = NoResult
  /\ report = NoResult

InitParse ==
  /\ sent \in Messages
  /\ message = Text(sent)
  /\ topic \in Topics
  /\ allowFuture \in BOOLEAN
  /\ now = Now0
  /\ call = "none"
  /\ out = NoResult
  /\ prev = NoResult
  /\ InService(Config(FALSE, MaxWorkers, FALSE, FALSE), FALSE)

\* parser.parse(message, topic), called as test.js calls it.
CallParse ==
  /\ call = "none"
  /\ call' = "parse"
  /\ out' = parse(message, topic, now)
  /\ UNCHANGED <<sent, message, topic, allowFuture, now, prev, service>>

\* handleMessage(topic, message) with useWorkers off.
HandleMessageSync ==
  /\ call = "none"
  /\ call' = "sync"
  /\ out' = handleMessageSync(message, topic, now)
  /\ UNCHANGED <<sent, message, topic, allowFuture, now, prev, service>>

\* handleMessage(topic, message) with useWorkers on, through to the
\* handleParsed of the worker's reply.
HandleMessageWorker ==
  /\ call = "none"
  /\ \E fault \in BOOLEAN :
       /\ call' = IF fault THEN "worker-fault" ELSE "worker"
       /\ out' = handleMessageWorker(message, topic, now, allowFuture, fault)
  /\ UNCHANGED <<sent, message, topic, allowFuture, now, prev, service>>

NextParse == CallParse \/ HandleMessageSync \/ HandleMessageWorker

SpecParse == InitParse /\ [][NextParse]_vars

\* ------------------------------------- the same message parsed twice
\* Messages of a timestamp and a uuid at most, and the varied ones.
TwiceMessages ==
  { [enc |-> "pipe", lead |-> <<>>, tokens |-> ts \o us] :
      ts \in Opt(TimestampTokens), us \in Opt(UuidTokens) }
  \cup { [enc |-> "json", lead |-> <<>>, members |-> ts \o us, closed |-> TRUE] :
           ts \in Opt(TimestampMembers), us \in Opt(UuidMembers) }
  \cup VariedMessages

InitTwice ==
  /\ sent \in TwiceMessages
  /\ message = Text(sent)
  /\ topic \in Topics
  /\ allowFuture \in BOOLEAN
  /\ now = Now0
  /\ call = "none"
  /\ out = NoResult
  /\ prev = NoResult
  /\ InService(Config(FALSE, MaxWorkers, FALSE, FALSE), FALSE)

\* Time passes before the first call or between the two.
TickTwice ==
  /\ call \in {"none", "first"}
  /\ now < MaxNow
  /\ now' = now + 1
  /\ UNCHANGED <<sent, message, topic, allowFuture, call, out, prev, service>>

\* parser.parse(message, topic), a first time.
FirstParse ==
  /\ call = "none"
  /\ call' = "first"
  /\ prev' = parse(message, topic, now)
  /\ UNCHANGED <<sent, message, topic, allowFuture, now, out, service>>

\* parser.parse(message, topic) again, with the same arguments.
SecondParse ==
  /\ call = "first"
  /\ call' = "second"
  /\ out' = parse(message, topic, now)
  /\ UNCHANGED <<sent, message, topic, allowFuture, now, prev, service>>

NextTwice == TickTwice \/ FirstParse \/ SecondParse

SpecTwice == InitTwice /\ [][NextTwice]_vars

\* ------------------------------------------------- the parser in service
\* The parser in service under one of the configurations cfgs, with the
\* message, the clock and the rule set of the service specifications.
InitService(cfgs, started) ==
  /\ sent = [enc |-> "pipe", lead |-> <<>>, tokens |-> GoodPipe]
  /\ message = Text(sent)
  /\ topic \in Topics
  /\ allowFuture = FALSE
  /\ now = Now0
  /\ call = "none"
  /\ out = NoResult
  /\ prev = NoResult
  /\ \E cfg \in cfgs : InService(cfg, started)

\* connect(): the CA file missing, or the client made and its handlers set.
Connect ==
  /\ mqttClient = "none"
  /\ logger.stats.totalMessages < MaxLogs
  /\ \E caFound \in BOOLEAN :
       /\ Becomes(connect(Parser, config, hour, caFound))
       /\ mqttClient' = IF caFound THEN "open" ELSE mqttClient
  /\ UNCHANGED <<parsing, config, writeApi, hour, workerPool, inbox, outbox,
                 posted, dispatched, received, handled, connected,
                 reconnectAttempts, subscribing, lastEvent, snapshot, report>>

\* mqttClient.on('connect')
OnConnect ==
  /\ mqttClient = "open"
  /\ logger.stats.totalMessages < MaxLogs
  /\ connected' = TRUE
  /\ reconnectAttempts' = 0
  /\ Becomes(log(Parser, config, "success", LogText.connected, Null, hour))
  /\ subscribing' = subscribing + 1
  /\ lastEvent' = "connect"
  /\ UNCHANGED <<parsing, config, writeApi, hour, workerPool, inbox, outbox,
                 posted, dispatched, received, handled, mqttClient, snapshot,
                 report>>

\* The callback of mqttClient.subscribe
OnSubscribe ==
  /\ subscribing > 0
  /\ logger.stats.totalMessages < MaxLogs
  /\ subscribing' = subscribing - 1
  /\ \E err \in BOOLEAN :
       Becomes(IF err
               THEN log(Parser, config, "error", LogText.subscribeError,
                           Null, hour)
               ELSE log(Parser, config, "success", LogText.subscribed,
                           Null, hour))
  /\ UNCHANGED <<parsing, config, writeApi, hour, workerPool, inbox, outbox,
                 posted, dispatched, received, handled, mqttClient, connected,
                 reconnectAttempts, lastEvent, snapshot, report>>

\* mqttClient.on('error')
OnError ==
  /\ mqttClient # "none"
  /\ logger.stats.totalMessages < MaxLogs
  /\ connected' = FALSE
  /\ Becomes(log(Parser, config, "error", LogText.connectionError, Null,
                 hour))
  /\ lastEvent' = "error"
  /\ UNCHANGED <<parsing, config, writeApi, hour, workerPool, inbox, outbox,
                 posted, dispatched, received, handled, mqttClient,
                 reconnectAttempts, subscribing, snapshot, report>>

\* mqttClient.on('close')
OnClose ==
  /\ mqttClient # "none"
  /\ logger.stats.totalMessages < MaxLogs
  /\ connected' = FALSE
  /\ Becomes(log(Parser, config, "warn", LogText.connectionClosed, Null,
                 hour))
  /\ lastEvent' = "close"
  /\ UNCHANGED <<parsing, config, writeApi, hour, workerPool, inbox, outbox,
                 posted, dispatched, received, handled, mqttClient,
                 reconnectAttempts, subscribing, snapshot, report>>

\* mqttClient.on('reconnect'); a client that was ended reconnects no more.
OnReconnect ==
  /\ mqttClient = "open"
  /\ logger.stats.totalMessages < MaxLogs
  /\ reconnectAttempts' = reconnectAttempts + 1
  /\ LET P1 == log(Parser, config, "info", LogText.reconnection, Null, hour)
     IN IF reachedMax(reconnectAttempts + 1)
        THEN /\ Becomes(log(P1, config, "error", LogText.maxReconnection,
                               Null, hour))
             /\ mqttClient' = "ended"
        ELSE /\ Becomes(P1)
             /\ mqttClient' = mqttClient
  /\ lastEvent' = "reconnect"
  /\ UNCHANGED <<parsing, config, writeApi, hour, workerPool, inbox, outbox,
                 posted, dispatched, received, handled, connected,
                 subscribing, snapshot, report>>

\* mqttClient.on('message'): handleMessage(topic, message), through to
\* handleParsed when the parse is done on the spot.
HandleMessage ==
  /\ mqttClient = "open"
  /\ received < MaxMessages
  /\ received' = received + 1
  /\ \E str \in ServiceTexts, tpc \in Topics,
        throws \in (IF writeApi THEN BOOLEAN ELSE {FALSE}) :
       \E P1 \in {log(Parser, config, "info", LogText.received,
                          [topic |-> tpc, message |-> str], hour)} :
         IF config.parser.useWorkers /\ Len(workerPool) > 0
         THEN \E d \in {dispatch(workerPool)} :
                /\ workerPool' = d.pool
                /\ inbox' = [inbox EXCEPT ![d.worker] =
                               Append(@, [str |-> str, topic |-> tpc])]
                /\ dispatched' = Append(dispatched, d.worker)
                /\ Becomes(P1)
                /\ UNCHANGED handled
         ELSE \E result \in {IF now = Now0 THEN ParsedAtNow0[str][tpc]
                              ELSE parse(str, tpc, now)} :
                \E hp \in {handleParsed(P1, config, writeApi, result, hour,
                                         throws)} :
                  /\ Becomes(hp.parser)
                  /\ handled' = [results |-> handled.results + 1,
                                valid |-> handled.valid
                                          + (IF result.valid THEN 1 ELSE 0),
                                given |-> result, left |-> hp.result]
                  /\ UNCHANGED <<workerPool, inbox, dispatched>>
  /\ UNCHANGED <<parsing, config, writeApi, hour, outbox, posted, mqttClient,
                 connected, reconnectAttempts, subscribing, lastEvent,
                 snapshot, report>>

\* parentPort.on('message') in worker w, for the oldest message posted to it.
WorkerMessage ==
  \E w \in DOMAIN inbox, fault \in BOOLEAN :
    /\ inbox[w] # <<>>
    /\ \E job \in {Head(inbox[w])} :
         \E posts \in {IF now = Now0
                        THEN PostedAtNow0[job.str][job.topic][allowFuture][fault]
                        ELSE workerPosts(job, now, allowFuture, fault)} :
           /\ outbox' = [outbox EXCEPT ![w] = @ \o posts]
           /\ posted' = [posted EXCEPT ![w] = @ + Len(posts)]
    /\ inbox' = [inbox EXCEPT ![w] = Tail(@)]
    /\ UNCHANGED <<parsing, config, writeApi, hour, logger, emitted, points,
                   workerPool, dispatched, received, handled, mqttClient,
                   connected, reconnectAttempts, subscribing, lastEvent,
                   snapshot, report>>

\* worker.on('message') in the parser, for the oldest result worker w posted
\* and the parser has not yet seen: handleParsed(result).
WorkerResult ==
  \E w \in DOMAIN outbox, throws \in (IF writeApi THEN BOOLEAN ELSE {FALSE}) :
    /\ outbox[w] # <<>>
    /\ \E result \in {Head(outbox[w])} :
         \E hp \in {handleParsed(Parser, config, writeApi, result, hour,
                                  throws)} :
           /\ Becomes(hp.parser)
           /\ handled' = [results |-> handled.results + 1,
                                valid |-> handled.valid
                                          + (IF result.valid THEN 1 ELSE 0),
                                given |-> result, left |-> hp.result]
    /\ outbox' = [outbox EXCEPT ![w] = Tail(@)]
    /\ UNCHANGED <<parsing, config, writeApi, hour, workerPool, inbox, posted,
                   dispatched, received, mqttClient, connected,
                   reconnectAttempts, subscribing, lastEvent, snapshot,
                   report>>

\* parser.getStats(), the object returned kept by the caller; hours is what
\* its messagesByHour read when it was returned.
GetStats ==
  /\ snapshot' = [stats |-> getStats(logger, hour),
                  hours |-> logger.objects[logger.stats.messagesByHour]]
  /\ UNCHANGED <<parsing, config, writeApi, hour, logger, emitted, points,
                 workerPool, inbox, outbox, posted, dispatched, received,
                 handled, mqttClient, connected, reconnectAttempts,
                 subscribing, lastEvent, report>>

\* logger.resetStats()
ResetStats ==
  /\ logger' = resetStats(logger, hour,
                          IF snapshot = NoResult THEN {}
                          ELSE {snapshot.stats.messagesByHour})
  /\ UNCHANGED <<parsing, config, writeApi, hour, emitted, points, workerPool,
                 inbox, outbox, posted, dispatched, received, handled,
                 mqttClient, connected, reconnectAttempts, subscribing,
                 lastEvent, snapshot, report>>

\* The hour of the day moves on.
TickHour ==
  /\ hour < MaxHour
  /\ hour' = hour + 1
  /\ UNCHANGED <<parsing, config, writeApi, logger, emitted, points,
                 workerPool, inbox, outbox, posted, dispatched, received,
                 handled, mqttClient, connected, reconnectAttempts,
                 subscribing, lastEvent, snapshot, report>>

\* stats.js: generateStatistics() over the log directory.
GenerateStatistics ==
  /\ report' = generateStatistics(logger.file)
  /\ UNCHANGED <<parsing, config, writeApi, hour, logger, emitted, points,
                 workerPool, inbox, outbox, posted, dispatched, received,
                 handled, mqttClient, connected, reconnectAttempts,
                 subscribing, lastEvent, snapshot>>

\* The worker pool: messages come in, workers parse, and their results
\* come back in any order.
NextPool == HandleMessage \/ WorkerMessage \/ WorkerResult
SpecPool ==
  /\ InitService({ c \in Configs(FALSE) : ~c.influxdb.enabled }, TRUE)
  /\ [][NextPool]_vars

\* The statistics: messages parsed on the spot, with InfluxDB or without,
\* the statistics reset, and the hour moving on.
NextStats == HandleMessage \/ ResetStats \/ TickHour
SpecStats ==
  /\ InitService({ c \in Configs(FALSE) : ~c.parser.useWorkers }, TRUE)
  /\ [][NextStats]_vars

\* The statistics read by a caller that keeps what it read.
NextSnapshot == HandleMessage \/ GetStats \/ TickHour
SpecSnapshot ==
  /\ InitService({Config(FALSE, MaxWorkers, FALSE, FALSE)}, TRUE)
  /\ [][NextSnapshot]_vars

\* The connection to the broker.
NextMqtt ==
  Connect \/ OnConnect \/ OnSubscribe \/ OnError \/ OnClose \/ OnReconnect
SpecMqtt ==
  /\ InitService({Config(FALSE, MaxWorkers, FALSE, FALSE)}, FALSE)
  /\ [][NextMqtt]_vars

\* One worker, and a connection that may close while it works.
NextOutage == HandleMessage \/ WorkerMessage \/ WorkerResult \/ OnClose
SpecOutage ==
  /\ InitService({Config(TRUE, 1, FALSE, FALSE)}, TRUE)
  /\ [][NextOutage]_vars

\* The log file and the report made from it.
NextReport == HandleMessage \/ OnClose \/ GenerateStatistics
SpecReport ==
  /\ InitService({Config(FALSE, MaxWorkers, FALSE, TRUE)}, TRUE)
  /\ [][NextReport]_vars

\* ------------------------------------------------------ claims: helpers
CanonicalFields ==
  {"timestamp", "uuid", "temperature", "humidity", "version", "actuator"}

\* The result has a violation whose message starts with one of msgs.
HasError(r, msgs) ==
  \E i \in 1..Len(r.validationErrors) : r.validationErrors[i].msg \in msgs

\* The first character of s that trim would keep; "" when there is none.
FirstKept(s) ==
  IF \A i \in 1..Len(s) : s[i] \in TrimSpace THEN ""
  ELSE s[CHOOSE i \in 1..Len(s) :
           s[i] \notin TrimSpace /\ \A j \in 1..(i - 1) : s[j] \in TrimSpace]

\* Text that is a decimal integer, and one that is a decimal number with
\* an optional sign and an optional fraction.
IsDigits(s) == s # <<>> /\ \A i \in 1..Len(s) : s[i] \in Digit
IsDecimal(s) ==
  LET u == IF s # <<>> /\ s[1] = "-" THEN Tail(s) ELSE s
      dots == {i \in 1..Len(u) : u[i] = "."}
  IN \/ IsDigits(u)
     \/ \E d \in dots :
          IsDigits(SubSeq(u, 1, d - 1)) /\ IsDigits(SubSeq(u, d + 1, Len(u)))

\* A finite number within [lo, hi], both in whole units.
InRange(v, lo, hi) == v.t = "number" /\ Tenths(lo) <= v.n /\ v.n <= Tenths(hi)

RecognisedKeys == {<<"t","t">>, <<"t">>, <<"h">>, <<"a">>, <<"v">>, <<"u","i","d">>}

\* The value of a pipe token satisfies the rule of its key, at clock n.
TokenInRule(tok, n) ==
  CASE tok.key = <<"t","t">> ->
         IsDigits(tok.value) /\ parseInt(tok.value).n <= Tenths(n)
    [] tok.key = <<"t">> ->
         IsDecimal(tok.value) /\ InRange(parseFloat(tok.value), TempMin, TempMax)
    [] tok.key = <<"h">> ->
         IsDecimal(tok.value) /\ InRange(parseFloat(tok.value), HumMin, HumMax)
    [] tok.key = <<"a">> -> ActuatorFormatTest(Str(tok.value))
    [] tok.key = <<"v">> ->
         /\ Len(tok.value) >= 1 /\ Len(tok.value) <= VersionMaxLength
         /\ ~includes(tok.value, " ")
    [] tok.key = <<"u","i","d">> -> UuidFormatTest(Str(tok.value))
    [] OTHER -> FALSE

\* A pipe message of recognised keys, none repeated, with uid and tt, every
\* value within its rule.
ValidPipeSent(m, n) ==
  /\ m.enc = "pipe" /\ m.lead = <<>>
  /\ \A i \in 1..Len(m.tokens) :
       m.tokens[i].key \in RecognisedKeys /\ TokenInRule(m.tokens[i], n)
  /\ \A i, j \in 1..Len(m.tokens) : i # j => m.tokens[i].key # m.tokens[j].key
  /\ \E i \in 1..Len(m.tokens) : m.tokens[i].key = <<"u","i","d">>
  /\ \E i \in 1..Len(m.tokens) : m.tokens[i].key = <<"t","t">>

\* ----------------------------------------------------------------- claims
\* C1: for every message and topic, the worker path (handleMessage ->
\* parserWorker -> handleParsed) and the synchronous path (handleMessage ->
\* parse -> handleParsed) hand handleParsed an equivalent result: the same
\* valid flag, decoded fields, violations in the same order and encoding.
C1_PathsEquivalent ==
  call = "worker" =>
    LET s == handleMessageSync(message, topic, now)
    IN /\ out.valid = s.valid
       /\ \A f \in CanonicalFields : Get(out.data, f) = Get(s.data, f)
       /\ out.validationErrors = s.validationErrors
       /\ out.format = s.format

\* C2: a pipe message of recognised keys without repetition, holding uid and
\* tt, every value within its rule, parses to valid = true with no
\* violations and encoding pipe.
C2_ValidPipeAccepted ==
  (call = "parse" /\ ValidPipeSent(sent, now)) =>
    (out.valid /\ out.validationErrors = <<>> /\ out.format = "pipe")

\* C3: the encoding parse reports is decided by the first non-white-space
\* character of the text alone: "{" gives json or invalid-json, anything
\* else (or nothing) gives pipe, and no other encoding is reported.
C3_EncodingByFirstChar ==
  call = "parse" =>
    /\ out.format \in {"pipe", "json", "invalid-json"}
    /\ (FirstKept(message) = "{") = (out.format \in {"json", "invalid-json"})
    /\ (FirstKept(message) # "{") = (out.format = "pipe")

\* C3 witness: JSON text received with white space before its brace was read
\* as JSON.
C3_Witness ==
  /\ call = "parse" /\ sent.enc = "json" /\ sent.lead # <<>>
  /\ out.format = "json" /\ out.valid

\* C4: in every result of parse and of a worker, the worker's fault result
\* included, valid is true exactly when the violations list is empty.
C4_ValidIffNoViolations ==
  call # "none" => (out.valid = (out.validationErrors = <<>>))

\* C4 witness: a parse that recorded several violations, so that several
\* steps each set valid to false and appended.
C4_Witness ==
  call = "parse" /\ ~out.valid /\ Len(out.validationErrors) >= 2

\* A well-formed JSON literal of the kind named.
IsStringLit(lit) == Len(lit) >= 2 /\ lit[1] = "\"" /\ lit[Len(lit)] = "\""
IsNumberLit(lit) == IsDecimal(lit)

\* The literal of the last member of m named k; <<>> when there is none.
LitOf(m, k) ==
  LET at == {i \in 1..Len(m.members) : m.members[i].key = k}
  IN IF at = {} THEN <<>> ELSE m.members[Greatest(at)].lit

\* A closed JSON object that lacks a uuid or a timestamp, or holds a field
\* of the wrong type.
JsonMissingOrMistyped(m) ==
  /\ m.enc = "json" /\ m.closed
  /\ \/ LitOf(m, KeyTimestamp) = <<>>
     \/ /\ LitOf(m, KeyUuid) = <<>>
        /\ LitOf(m, <<"d","e","v","i","c","e","_","i","d">>) = <<>>
        /\ LitOf(m, <<"i","d">>) = <<>>
     \/ ~IsNumberLit(LitOf(m, KeyTimestamp))
     \/ (LitOf(m, KeyUuid) # <<>> /\ ~IsStringLit(LitOf(m, KeyUuid)))
     \/ (LitOf(m, KeyTemperature) # <<>> /\ ~IsNumberLit(LitOf(m, KeyTemperature)))
     \/ (LitOf(m, KeyHumidity) # <<>> /\ ~IsNumberLit(LitOf(m, KeyHumidity)))

\* A pipe message with a token that has no lower-case key, a space in a
\* value or an unrecognised key.
PipeMalformed(m) ==
  /\ m.enc = "pipe"
  /\ \E i \in 1..Len(m.tokens) :
       \/ m.tokens[i].key \notin RecognisedKeys
       \/ includes(m.tokens[i].value, " ")

\* C5: parse always returns a result; malformed pipe tokens, malformed JSON
\* and JSON objects with missing or wrongly typed fields are reported as
\* valid = false with a non-empty violations list.
C5_BadInputRejected ==
  call = "parse" =>
    /\ {"valid", "validationErrors", "format", "data"} \subseteq DOMAIN out
    /\ (\/ PipeMalformed(sent)
        \/ (sent.enc = "json" /\ ~sent.closed)
        \/ JsonMissingOrMistyped(sent))
       => (~out.valid /\ out.validationErrors # <<>>)

\* The decoded fields break the rule named, at clock n under allowFuture af.
TimestampBroken(d, n, af) ==
  LET x == Get(d, "timestamp")
  IN x # Undefined
     /\ ~(x.t = "number" /\ x.n % 10 = 0 /\ (af \/ x.n <= Tenths(n)))
TemperatureBroken(d) ==
  Get(d, "temperature") # Undefined
  /\ ~InRange(Get(d, "temperature"), TempMin, TempMax)
HumidityBroken(d) ==
  Get(d, "humidity") # Undefined /\ ~InRange(Get(d, "humidity"), HumMin, HumMax)
UuidBroken(d) ==
  Get(d, "uuid") # Undefined
  /\ ~(Get(d, "uuid").t = "string" /\ UuidFormatTest(Get(d, "uuid")))
ActuatorBroken(d) ==
  Get(d, "actuator") # Undefined /\ ~ActuatorFormatTest(Get(d, "actuator"))
VersionBroken(d) ==
  LET x == Get(d, "version")
  IN x # Undefined
     /\ ~(x.t = "string" /\ Len(x.s) >= 1 /\ Len(x.s) <= VersionMaxLength)

MissingMsgs ==
  {"Missing required fields (uuid or timestamp)",
   "Missing required UUID field in JSON",
   "Missing required timestamp field in JSON"}

\* C6: parse applies every rule to the decoded fields without
\* short-circuiting: the violations list has an entry for each rule the
\* message breaks, whatever was recorded before.
C6_EveryBrokenRuleReported ==
  (call = "parse" /\ out.format # "invalid-json") =>
    /\ TimestampBroken(out.data, now, allowFuture)
         => HasError(out, {"Invalid timestamp", "Future timestamp"})
    /\ TemperatureBroken(out.data)
         => HasError(out, {"Invalid temperature", "Temperature out of range"})
    /\ HumidityBroken(out.data)
         => HasError(out, {"Invalid humidity", "Humidity out of range"})
    /\ UuidBroken(out.data) => HasError(out, {"Invalid UUID format"})
    /\ ActuatorBroken(out.data) => HasError(out, {"Invalid actuator format"})
    /\ VersionBroken(out.data) => HasError(out, {"Invalid version"})
    /\ (Get(out.data, "uuid") = Undefined \/ Get(out.data, "timestamp") = Undefined)
         => HasError(out, MissingMsgs)

\* C7: a JSON message whose timestamp is not a finite integer is rejected
\* with a violation about the timestamp, even when its uuid is well-formed.
C7_JsonTimestampChecked ==
  (/\ call = "parse" /\ out.format = "json"
   /\ LitOf(sent, KeyTimestamp) # <<>>
   /\ ~IsDigits(LitOf(sent, KeyTimestamp)))
  => /\ ~out.valid
     /\ HasError(out, {"Invalid timestamp", "Future timestamp",
                       "Missing required timestamp field in JSON",
                       "Missing required fields (uuid or timestamp)"})

\* C8: in both encodings a decoded timestamp later than the clock gets a
\* future-timestamp violation exactly when allowFuture is false.
C8_FutureFollowsRuleSet ==
  (/\ call = "parse"
   /\ Get(out.data, "timestamp").t = "number"
   /\ Get(out.data, "timestamp").n > Tenths(now))
  => (HasError(out, {"Future timestamp"}) = ~allowFuture)

\* C9: in both encodings a message that carries a temperature or a humidity
\* is accepted only if the value is a finite number within [min, max], and
\* a value within the range (min and max included) draws no violation of
\* that rule.
C9_RangeRule ==
  call = "parse" =>
    /\ (out.valid /\ Get(out.data, "temperature") # Undefined)
         => InRange(Get(out.data, "temperature"), TempMin, TempMax)
    /\ (out.valid /\ Get(out.data, "humidity") # Undefined)
         => InRange(Get(out.data, "humidity"), HumMin, HumMax)
    /\ (Get(out.data, "temperature") # Undefined
        /\ InRange(Get(out.data, "temperature"), TempMin, TempMax))
         => ~HasError(out, {"Temperature out of range"})
    /\ (Get(out.data, "humidity") # Undefined
        /\ InRange(Get(out.data, "humidity"), HumMin, HumMax))
         => ~HasError(out, {"Humidity out of range"})

\* The uuid text a message was sent with; <<>> when it has none.
SentUuid(m) ==
  IF m.enc = "pipe"
  THEN LET at == {i \in 1..Len(m.tokens) : m.tokens[i].key = <<"u","i","d">>}
       IN IF at = {} THEN <<>> ELSE m.tokens[Greatest(at)].value
  ELSE LET lit == IF LitOf(m, KeyUuid) # <<>> THEN LitOf(m, KeyUuid)
                  ELSE IF LitOf(m, <<"d","e","v","i","c","e","_","i","d">>) # <<>>
                    THEN LitOf(m, <<"d","e","v","i","c","e","_","i","d">>)
                  ELSE LitOf(m, <<"i","d">>)
       IN IF IsStringLit(lit) THEN SubSeq(lit, 2, Len(lit) - 1) ELSE <<>>

\* The message holds a timestamp of 2 and a uuid, and nothing else.
OnlyTimestampAndUuid(m) ==
  /\ m.lead = <<>>
  /\ IF m.enc = "pipe"
     THEN /\ Len(m.tokens) = 2
          /\ m.tokens[1] = Tok(KeyTT, <<"2">>)
          /\ m.tokens[2].key = <<"u","i","d">>
     ELSE /\ m.closed /\ Len(m.members) = 2
          /\ m.members[1] = Mem(KeyTimestamp, <<"2">>)

\* C10: in both encodings a uuid that does not match the 8-4-4-4-12
\* hexadecimal pattern makes the result invalid with an invalid-UUID-format
\* violation, and a uuid that matches it, in either case of its letters,
\* causes no rejection.
C10_UuidRule ==
  (call = "parse" /\ SentUuid(sent) # <<>>) =>
    IF UuidFormatTest(Str(SentUuid(sent)))
    THEN /\ ~HasError(out, {"Invalid UUID format"})
         /\ OnlyTimestampAndUuid(sent) => out.valid
    ELSE ~out.valid /\ HasError(out, {"Invalid UUID format"})

\* C11: in both encodings a decoded actuator that does not match the
\* single-character pattern, or a decoded version whose length is not
\* between 1 and maxLength, makes the result invalid, and a value within
\* its rule draws no violation of that rule.
C11_ActuatorVersionRule ==
  call = "parse" =>
    /\ ActuatorBroken(out.data) => ~out.valid
    /\ VersionBroken(out.data) => ~out.valid
    /\ (Get(out.data, "actuator") # Undefined /\ ~ActuatorBroken(out.data))
         => ~HasError(out, {"Invalid actuator format"})
    /\ (Get(out.data, "version") # Undefined /\ ~VersionBroken(out.data))
         => ~HasError(out, {"Invalid version"})

\* The field a pipe key stands for, and the value its case stores for a
\* value text.
FieldOf(key) ==
  CASE key = <<"t","t">> -> "timestamp"
    [] key = <<"t">> -> "temperature"
    [] key = <<"h">> -> "humidity"
    [] key = <<"a">> -> "actuator"
    [] key = <<"v">> -> "version"
    [] key = <<"u","i","d">> -> "uuid"
DecodeBy(key, value) ==
  CASE key = <<"t","t">> -> parseInt(value)
    [] key \in {<<"t">>, <<"h">>} -> parseFloat(value)
    [] OTHER -> Str(value)

\* C12: for each recognised key k and each value v without a space or a
\* '|', the token k followed by v is decoded as key k with value v,
\* whatever character v begins with.
C12_TokenAttributedToKey ==
  (call = "parse" /\ sent.enc = "pipe" /\ sent.lead = <<>>) =>
    \A i \in 1..Len(sent.tokens) :
      LET tok == sent.tokens[i]
      IN (/\ tok.key \in RecognisedKeys
          /\ ~includes(tok.value, " ") /\ ~includes(tok.value, "|")
          /\ \A j \in (i + 1)..Len(sent.tokens) : sent.tokens[j].key # tok.key)
         => Get(out.data, FieldOf(tok.key)) = DecodeBy(tok.key, tok.value)

\* The lower-case letters a part starts with.
KeyPrefix(part) ==
  SubSeq(part, 1,
         Cardinality({n \in 1..Len(part) : \A j \in 1..n : part[j] \in Lower}))

\* Some key prefix comes more than once among the parts of the text.
RepeatsKey(text) ==
  LET parts == split(text)
  IN \E i, j \in 1..Len(parts) :
       i # j /\ KeyPrefix(parts[i]) # <<>> /\ KeyPrefix(parts[i]) = KeyPrefix(parts[j])

\* The number of violations of r with the message msg.
CountErrors(r, msgs) ==
  Cardinality({i \in 1..Len(r.validationErrors) : r.validationErrors[i].msg \in msgs})

\* C13: a pipe message in which some key prefix comes more than once gets
\* exactly one 'Duplicate keys found' violation, however many keys repeat
\* and however often; a pipe message with no repeated key prefix gets none.
C13_OneDuplicateViolation ==
  (call = "parse" /\ out.format = "pipe") =>
    CountErrors(out, {"Duplicate keys found"})
      = (IF RepeatsKey(message) THEN 1 ELSE 0)

\* C13 witness: a message with one key three times, or with two keys twice
\* each, was parsed and got its one violation.
C13_Witness ==
  /\ call = "parse" /\ sent \in RepeatedKeyMessages
  /\ CountErrors(out, {"Duplicate keys found"}) = 1

\* A literal JSON admits as a value: a string, a number, true, false, null.
IsJsonLit(lit) ==
  \/ IsStringLit(lit) \/ IsNumberLit(lit)
  \/ lit \in {<<"t","r","u","e">>, <<"f","a","l","s","e">>, <<"n","u","l","l">>}

\* The message is the text of a well-formed JSON object.
WellFormedJson(m) ==
  /\ m.enc = "json" /\ m.closed
  /\ \A i \in 1..Len(m.lead) : m.lead[i] \in JSONSpace
  /\ \A i \in 1..Len(m.members) : IsJsonLit(m.members[i].lit)

\* C14: for every input that starts with '{' but is not well-formed JSON,
\* parse returns encoding invalid-json, valid = false and exactly one
\* violation, the JSON parser's; no field is extracted and no rule adds a
\* violation.  (A well-formed object is never reported invalid-json.)
C14_MalformedJson ==
  (call = "parse" /\ FirstKept(message) = "{") =>
    IF WellFormedJson(sent)
    THEN out.format = "json"
    ELSE /\ out.format = "invalid-json" /\ ~out.valid
         /\ Len(out.validationErrors) = 1
         /\ out.validationErrors[1].msg = "Invalid JSON format"
         /\ DOMAIN out.data \cap CanonicalFields = {}

\* C14 witness: JSON text without its closing brace was parsed.
C14_Witness ==
  /\ call = "parse" /\ sent.enc = "json" /\ ~sent.closed
  /\ out.format = "invalid-json" /\ Len(out.validationErrors) = 1

KeyDeviceId == <<"d","e","v","i","c","e","_","i","d">>
KeyId == <<"i","d">>

\* The message was sent with a uuid, and with a timestamp.
SentHasUuid(m) ==
  IF m.enc = "pipe"
  THEN \E i \in 1..Len(m.tokens) : m.tokens[i].key = <<"u","i","d">>
  ELSE \E k \in {KeyUuid, KeyDeviceId, KeyId} : LitOf(m, k) # <<>>
SentHasTimestamp(m) ==
  IF m.enc = "pipe"
  THEN \E i \in 1..Len(m.tokens) : m.tokens[i].key = <<"t","t">>
  ELSE LitOf(m, KeyTimestamp) # <<>>

\* C15: a message without a uuid or without a timestamp is rejected; in
\* JSON each of the two missing fields has its own violation; a message
\* with both fields never gets a missing-field violation.
C15_RequiredFields ==
  call = "parse" =>
    /\ (~SentHasUuid(sent) \/ ~SentHasTimestamp(sent)) => ~out.valid
    /\ (out.format = "json" /\ ~SentHasUuid(sent))
         => HasError(out, {"Missing required UUID field in JSON"})
    /\ (out.format = "json" /\ ~SentHasTimestamp(sent))
         => HasError(out, {"Missing required timestamp field in JSON"})
    /\ (SentHasUuid(sent) /\ SentHasTimestamp(sent))
         => ~HasError(out, MissingMsgs)

\* The value a JSON literal stands for.
LitValue(lit) ==
  CASE IsStringLit(lit) -> Str(SubSeq(lit, 2, Len(lit) - 1))
    [] IsNumberLit(lit) -> parseFloat(lit)
    [] lit = <<"t","r","u","e">> -> Bool(TRUE)
    [] lit = <<"f","a","l","s","e">> -> Bool(FALSE)
    [] lit = <<"n","u","l","l">> -> Null

\* The value of the first of the keys (in order) the object has; undefined
\* when it has none.
FirstPresent(m, keys) ==
  LET has == {i \in 1..Len(keys) : LitOf(m, keys[i]) # <<>>}
  IN IF has = {} THEN Undefined ELSE LitValue(LitOf(m, keys[Least(has)]))

\* C16: for every well-formed JSON object the decoded fields follow the
\* alias table, the first present key winning, and a key that is present
\* supplies the value whatever it is.
C16_AliasTable ==
  (call = "parse" /\ out.format = "json") =>
    /\ Get(out.data, "uuid") = FirstPresent(sent, <<KeyUuid, KeyDeviceId, KeyId>>)
    /\ Get(out.data, "timestamp") = FirstPresent(sent, <<KeyTimestamp>>)
    /\ Get(out.data, "temperature")
         = FirstPresent(sent, <<KeyTemperature, <<"t","e","m","p">>>>)
    /\ Get(out.data, "humidity")
         = FirstPresent(sent, <<KeyHumidity, <<"h","u","m","i","d">>>>)
    /\ Get(out.data, "version")
         = FirstPresent(sent, <<<<"v","e","r","s","i","o","n">>, <<"v","e","r">>>>)
    /\ Get(out.data, "actuator")
         = FirstPresent(sent, <<<<"a","c","t","u","a","t","o","r">>>>)

ReadingKeys == {<<"t","t">>, <<"t">>, <<"h">>, <<"v">>, <<"u","i","d">>}

\* The pipe message is the encoding of a reading: timestamp and uuid, with
\* temperature, humidity and version at most once each, every value within
\* its rule.
IsReading(m, n) ==
  ValidPipeSent(m, n) /\ \A i \in 1..Len(m.tokens) : m.tokens[i].key \in ReadingKeys

\* The members of the JSON encoding of the reading whose pipe tokens are
\* given: numbers bare, uuid and version quoted.
JsonOf(tokens) ==
  [i \in 1..Len(tokens) |->
     CASE tokens[i].key = <<"t","t">> -> Mem(KeyTimestamp, tokens[i].value)
       [] tokens[i].key = <<"t">> -> Mem(KeyTemperature, tokens[i].value)
       [] tokens[i].key = <<"h">> -> Mem(KeyHumidity, tokens[i].value)
       [] tokens[i].key = <<"v">> ->
            Mem(<<"v","e","r","s","i","o","n">>, Quoted(tokens[i].value))
       [] tokens[i].key = <<"u","i","d">> -> Mem(KeyUuid, Quoted(tokens[i].value))]

\* C17: for every reading, parsing its pipe encoding and parsing its JSON
\* encoding give the same valid verdict and decoded fields equal on
\* temperature, humidity, uuid, timestamp and version.
C17_RoundTrip ==
  (call = "parse" /\ IsReading(sent, now)) =>
    LET j == parse(JsonText(JsonOf(sent.tokens), TRUE), topic, now)
    IN /\ j.valid = out.valid
       /\ \A f \in {"temperature", "humidity", "uuid", "timestamp", "version"} :
            Get(j.data, f) = Get(out.data, f)

\* The two results agree on valid, canonical fields, violations, encoding.
SameVerdict(a, b) ==
  a.valid = b.valid /\ a.validationErrors = b.validationErrors
SameFields(a, b) ==
  /\ a.format = b.format
  /\ \A f \in CanonicalFields : Get(a.data, f) = Get(b.data, f)

ClockOf(r) == r.data["_receivedAt"].at

\* A pipe timestamp of the text lies after the clock c1 and not after c2.
TimestampBetween(text, c1, c2) ==
  LET parts == split(text)
  IN \E i \in 1..Len(parts) :
       LET v == SubSeq(parts[i], 3, Len(parts[i]))
       IN /\ KeyPrefix(parts[i]) = <<"t","t">> /\ IsDigits(v)
          /\ parseInt(v).n > Tenths(c1) /\ parseInt(v).n <= Tenths(c2)

TokenMsgs ==
  {"Invalid format for part", "Invalid characters in", "Invalid timestamp",
   "Invalid temperature", "Temperature out of range", "Invalid humidity",
   "Humidity out of range", "Invalid actuator format", "Invalid version",
   "Invalid UUID format", "Unknown key"}

\* The part fails the token pattern, holds a forbidden character, has an
\* unknown key or a bad value (the future-timestamp rule left aside).
TokenBad(part) ==
  LET k == KeyPrefix(part)
      v == SubSeq(part, Len(k) + 1, Len(part))
  IN \/ k = <<>>
     \/ \E i \in 1..Len(part) : part[i] \in LineTerminator \cup {" "}
     \/ k \notin RecognisedKeys
     \/ IF k = <<"t","t">> THEN ~IsDigits(v) ELSE ~TokenInRule(Tok(k, v), 0)

\* The indices of the bad parts of the text.
BadParts(text) ==
  LET parts == split(text)
  IN {i \in 1..Len(parts) : parts[i] # <<>> /\ TokenBad(parts[i])}

\* C19: pipe decoding collects failures: each bad token appends its own
\* violation and marks the message invalid, and every later token is still
\* decoded and checked.
C19_CollectsFailures ==
  (call = "parse" /\ out.format = "pipe") =>
    LET parts == split(message)
        bad == BadParts(message)
    IN /\ CountErrors(out, TokenMsgs) = Cardinality(bad)
       /\ bad # {} => ~out.valid
       /\ \A i \in 1..Len(parts) :
            (/\ parts[i] # <<>> /\ i \notin bad
             /\ \A j \in (i + 1)..Len(parts) :
                  KeyPrefix(parts[j]) # KeyPrefix(parts[i]))
            => Get(out.data, FieldOf(KeyPrefix(parts[i])))
                 = DecodeBy(KeyPrefix(parts[i]),
                            SubSeq(parts[i], Len(KeyPrefix(parts[i])) + 1,
                                   Len(parts[i])))

\* C19 witness: a good token between two bad ones was decoded, and both bad
\* ones were reported.
C19_Witness ==
  /\ call = "parse" /\ out.format = "pipe"
  /\ BadParts(message) = {1, 3}
  /\ CountErrors(out, TokenMsgs) = 2
  /\ Get(out.data, "uuid") # Undefined

\* The keys parse and the worker put into data besides the fields.
MetadataKeys == {"_topic", "_receivedAt", "_workerId"}

\* Some part of the text has a key prefix that is not recognised.
HasUnknownKey(text) ==
  LET parts == split(text)
  IN \E i \in 1..Len(parts) :
       /\ KeyPrefix(parts[i]) \notin RecognisedKeys \cup {<<>>}
       /\ \A j \in 1..Len(parts[i]) : parts[i][j] \notin LineTerminator \cup {" "}

Sum(table) ==
  LET RECURSIVE SumOver(_)
      SumOver(keys) ==
        IF keys = {} THEN 0
        ELSE LET k == CHOOSE x \in keys : TRUE
             IN table[k] + SumOver(keys \ {k})
  IN SumOver(DOMAIN table)

\* The keys handleParsed writes into the data of a valid result.
DisplayKeys == {"_format", "_processingTime"}

\* C21 as stated: a ParseResult is immutable once constructed; handleParsed
\* never changes the result it is handed nor its fields map.
C21_ResultImmutable ==
  handled.results > 0 => handled.left = handled.given

\* C21 amended: handleParsed leaves a rejected result as it was handed it;
\* to the data of a valid result it adds the entries _format and
\* _processingTime, and changes nothing else of the data or of the result.
C21_OnlyDisplayKeysAdded ==
  handled.results > 0 =>
    LET given == handled.given
        left == handled.left
    IN IF given.valid
       THEN /\ [left EXCEPT !.data = given.data] = given
            /\ DOMAIN left.data = DOMAIN given.data \cup DisplayKeys
            /\ \A k \in DOMAIN given.data \ DisplayKeys :
                 left.data[k] = given.data[k]
       ELSE left = given

\* C21 witness: a valid result was handed to handleParsed, and its data has
\* since a _format it did not have.
C21_Witness ==
  /\ handled.results > 0
  /\ handled.given.valid
  /\ "_format" \notin DOMAIN handled.given.data
  /\ "_format" \in DOMAIN handled.left.data

\* C22: with a pool of N >= 1 workers every message is posted to one worker,
\* the k-th (from 0) to worker k mod N, and the pool keeps the same N
\* workers; with the pool off or empty every message is parsed on the spot
\* and no worker is posted anything.
C22_RoundRobin ==
  IF config.parser.useWorkers /\ config.parser.numWorkers >= 1
  THEN LET N == config.parser.numWorkers
       IN /\ Len(dispatched) = received
          /\ \A k \in 1..Len(dispatched) : dispatched[k] = (k - 1) % N
          /\ Len(workerPool) = N
          /\ { workerPool[i] : i \in 1..N } = 0..(N - 1)
  ELSE /\ dispatched = <<>>
       /\ handled.results = received
       /\ \A w \in DOMAIN inbox : inbox[w] = <<>> /\ posted[w] = 0

\* C22 witness: with two workers a third message went to the first worker
\* again.
C22_Witness ==
  /\ config.parser.useWorkers /\ config.parser.numWorkers = 2
  /\ Len(dispatched) = 3
  /\ dispatched[3] = dispatched[1]
  /\ dispatched[2] # dispatched[1]

\* How many of the messages dispatched went to worker w.
SentTo(w) == Cardinality({ k \in 1..Len(dispatched) : dispatched[k] = w })

\* The result the catch block of the worker posts.
IsFaultResult(r) ==
  /\ ~r.valid
  /\ r.data = <<>>
  /\ Len(r.validationErrors) = 1
  /\ r.validationErrors[1].msg = "Worker error"

\* C23: every message a worker has received has yielded exactly one posted
\* result, whether parseMessage threw or not; a result that reports a worker
\* fault is a rejection with that one violation.
C23_OneResultPerMessage ==
  \A w \in DOMAIN inbox :
    /\ posted[w] + Len(inbox[w]) = SentTo(w)
    /\ \A i \in 1..Len(outbox[w]) :
         HasError(outbox[w][i], {"Worker error"}) => IsFaultResult(outbox[w][i])

\* C23 witness: a worker posted a fault result and, for a later message, a
\* result of parseMessage.
C23_Witness ==
  \E w \in DOMAIN outbox :
    /\ Len(outbox[w]) = 2
    /\ posted[w] = 2
    /\ IsFaultResult(outbox[w][1])
    /\ ~HasError(outbox[w][2], {"Worker error"})

\* What the counters read when the parser went into service.
StartStats == connect(construct(config, 0), config, 0, TRUE).logger.stats

\* C24 as stated: recording a result adds one to totalMessages and one to
\* validMessages or invalidMessages, so that after n results totalMessages
\* and validMessages + invalidMessages have both grown by n.
C24_TotalCountsResults ==
  LET st == logger.stats
  IN /\ st.totalMessages - StartStats.totalMessages = handled.results
     /\ st.validMessages + st.invalidMessages
          - (StartStats.validMessages + StartStats.invalidMessages)
        = handled.results

\* C25 as stated: with the pool on, once the results of the k >= 1
\* messages dispatched have all been delivered (no message waits at a worker
\* and no result waits for the parser), validMessages + invalidMessages has
\* grown by exactly k since the parser went into service.
C25_SumGrowsByDelivered ==
  (/\ config.parser.useWorkers
   /\ Len(workerPool) > 0
   /\ Len(dispatched) > 0
   /\ \A w \in DOMAIN inbox : inbox[w] = <<>> /\ outbox[w] = <<>>)
    => logger.stats.validMessages + logger.stats.invalidMessages
         = StartStats.validMessages + StartStats.invalidMessages
           + Len(dispatched)

\* The number validationRate stands for, in hundredths.
RateHundredths(rate) ==
  IF rate.t = "fixed" THEN rate.hundredths ELSE rate.n * 10

\* C26: validationRate lies in [0, 100], and is 0 whenever totalMessages is
\* 0.
C26_RateInRange ==
  /\ RateHundredths(logger.stats.validationRate) \in 0..10000
  /\ logger.stats.totalMessages = 0 => logger.stats.validationRate = Num(0)

\* C26 witness: the stats were reset after a valid message was counted.
C26_Witness ==
  /\ logger.stats.totalMessages = 0
  /\ handled.valid > 0

\* C27 as stated: what an earlier getStats() returned reads the same after
\* later updates of the counters, its counts per hour included.
C27_SnapshotKeepsHours ==
  snapshot # NoResult =>
    logger.objects[snapshot.stats.messagesByHour] = snapshot.hours

\* The violations of the rejected messages among the first n lines of the
\* log file.
RECURSIVE ViolationsLogged(_, _)
ViolationsLogged(file, n) ==
  IF n = 0 THEN 0
  ELSE ViolationsLogged(file, n - 1)
       + (IF file[n].level = "warn" /\ file[n].message = LogText.validationFailed
          THEN Len(file[n].data.errors) ELSE 0)

\* C28 as stated: the counts of the frequency table of violations add up to
\* the number of violations the rejected messages of the log carry.
C28_TableCountsViolations ==
  report # NoResult =>
    Sum(report.validationErrors)
      = ViolationsLogged(logger.file, report.summary.totalLogs)

\* C29: for every result handed to handleParsed one event was emitted,
\* 'data' for a valid result and 'error' for any other, and
\* writeToInfluxDB was called for valid results only.
C29_OneNotification ==
  /\ emitted.data = handled.valid
  /\ emitted.error = handled.results - handled.valid
  /\ points.calls = IF config.influxdb.enabled /\ writeApi THEN handled.valid
                    ELSE 0
  /\ handled.results > 0 =>
       IF handled.given.valid
       THEN emitted.last = [event |-> "data", payload |-> handled.left.data]
       ELSE /\ emitted.last.event = "error"
            /\ emitted.last.payload.validationErrors
                 = handleParsedArgs(handled.given).validationErrors

\* C29 witness: with InfluxDB on, a valid and a rejected result were handed
\* over, and one write was called.
C29_Witness ==
  /\ config.influxdb.enabled
  /\ handled.results = 2 /\ handled.valid = 1
  /\ emitted.data = 1 /\ emitted.error = 1
  /\ points.calls = 1

\* C30: reconnectAttempts changes only by a 'connect', which makes it 0, and
\* by a 'reconnect', which adds 1; it never passes maxReconnectAttempts, and
\* the client is ended exactly when it is there; connected becomes true by
\* a 'connect' only, and is false after a 'close' or an 'error'.
C30_Reconnects ==
  /\ [](/\ reconnectAttempts <= maxReconnectAttempts
        /\ (reconnectAttempts = maxReconnectAttempts) <=> (mqttClient = "ended")
        /\ lastEvent \in {"close", "error"} => ~connected)
  /\ [][/\ reconnectAttempts' # reconnectAttempts =>
             \/ reconnectAttempts' = 0 /\ lastEvent' = "connect"
             \/ /\ reconnectAttempts' = reconnectAttempts + 1
                /\ lastEvent' = "reconnect"
        /\ lastEvent' = "connect" /\ (lastEvent # "connect" \/ ~connected) =>
             reconnectAttempts' = 0 /\ connected'
        /\ (connected' /\ ~connected) => lastEvent' = "connect"]_vars

\* C30 witness: the fifth reconnect in a row ended the client.
C30_Witness ==
  /\ reconnectAttempts = maxReconnectAttempts
  /\ mqttClient = "ended"
  /\ lastEvent = "reconnect"

====
